---- MODULE Spec2Model ----
\* A model of the terminal toolkit (package "terminal"): the screen buffers of
\* TerminalScreen and the terminal writer behind them, the session and its
\* event generator, the input parser, the colour conversions (color.py) and
\* the escape-aware string functions (string.py, FormatStr of styles.py).
\*
\* Characters are one-character strings; ESC stands for the byte 0x1b.  A
\* Python str is a sequence of characters.  A Python dict is a sequence of
\* <<key, value>> pairs with unique keys, in insertion order (dicts keep it,
\* and the terminal writer's stable sort makes it observable).
\*
\* Not modelled: the draw-time statistics (_draw_time), and the colour state
\* of the terminal (SGR sequences are parsed by the terminal model and draw
\* nothing).
EXTENDS Integers, Sequences, FiniteSets, TLC

VARIABLES
    \* ---- TerminalScreen (ui.py) and the terminal it draws on
    curr_screen_buf,    \* self._curr_screen_buf
    last_screen_buf,    \* self._last_screen_buf
    size,               \* self._size
    termSize,           \* what get_size() returns now
    term,               \* the cells physically shown: position -> character
    op,                 \* the operation that ran last, with its arguments
    emitted,            \* the <<position, text>> writes op sent to stdout, in order
    fixedSize,          \* no resize has happened yet
    puts,               \* put calls since the last flush (bounds the model)
    \* ---- the session: the terminal's modes, the main thread, the threads
    tty,                \* termios of stdin: [echo, icanon, vmin]
    fullscreen,         \* alternate screen on (ESC[?1049h)
    cursor,             \* cursor visible (ESC[?25h)
    mouse,              \* mouse reporting on (ESC[?1002h ESC[?1003h)
    mpc,                \* where the main thread is in the session
    cfgSaved,           \* what configure() read with tcgetattr
    gen,                \* the events() generator: [state, mode, l]
    gens,               \* events() generators created so far
    gpc,                \* per thread: where it is in getch()
    saved,              \* per thread: getch's old_settings
    ch,                 \* per thread: getch's ch, the input read so far
    queue,              \* per listener thread: its queue.Queue
    readLog,            \* per listener thread: the events getch has returned
    stdin,              \* input written by the user and not yet read
    nInputs,            \* inputs written by the user so far
    yieldedEv,          \* input events the current generator has yielded
    lastYield,          \* what the current generator yielded last
    interrupted,        \* a KeyboardInterrupt hit the current generator
    yieldsSinceInt,     \* yields of the current generator since then
    \* ---- the input parser (events.py)
    curr_mouse_pos,     \* _curr_mouse_pos
    event,              \* what the last parse_event call returned
    prevPos,            \* _curr_mouse_pos before that call
    prevEvent,          \* type and position of the event returned before it
    prevMouse,          \* position of the last mouse event returned before it
    \* ---- TerminalScreen objects and what they share (ui.py)
    lifecycle,          \* per TerminalScreen object: where it is in its life
    title,              \* the window title
    stdout,             \* the control sequences show() and quit() have written
    \* ---- a call of one of the pure functions (color.py, string.py, styles.py)
    call                \* [fn, args, n, result]: result is of the n-th call

screenVars == <<curr_screen_buf, last_screen_buf, size, termSize, term, op,
                emitted, fixedSize, puts>>

sessionVars == <<tty, fullscreen, cursor, mouse, mpc, cfgSaved, gen, gens, gpc,
                 saved, ch, queue, readLog, stdin, nInputs, yieldedEv, lastYield,
                 interrupted, yieldsSinceInt>>

parseVars == <<curr_mouse_pos, event, prevPos, prevEvent, prevMouse>>

objectVars == <<lifecycle, title, stdout>>

vars == <<screenVars, sessionVars, parseVars, objectVars, call>>

------------------------------------------------------------------------------
\* Characters

ESC == "ESC"

IsDigit(c) == c \in {"0", "1", "2", "3", "4", "5", "6", "7", "8", "9"}

\* \s of Python's re, on the characters the model uses
IsSpace(c) == c \in {" ", "\t", "\n"}

\* \d+ is greedy: the first index from i on that holds no digit
DigitsEnd(s, i) ==
    LET stops == {j \in i .. Len(s) : ~IsDigit(s[j])}
    IN IF i > Len(s) THEN i
       ELSE IF stops = {} THEN Len(s) + 1
       ELSE CHOOSE j \in stops : \A k \in stops : j <= k

------------------------------------------------------------------------------
\* Python dict, insertion ordered

DictKeys(d) == {d[i][1] : i \in DOMAIN d}

DictGet(d, k) == d[CHOOSE i \in DOMAIN d : d[i][1] = k][2]

\* d[k] = v : an existing key keeps its place, a new key goes last
DictSet(d, k, v) ==
    IF k \in DictKeys(d)
    THEN [i \in DOMAIN d |-> IF d[i][1] = k THEN <<k, v>> ELSE d[i]]
    ELSE Append(d, <<k, v>>)

RECURSIVE DictUpdate(_, _)
\* a | b and a |= b : b's entries set into a, in b's order
DictUpdate(a, b) ==
    IF b = <<>> THEN a
    ELSE DictUpdate(DictSet(a, b[1][1], b[1][2]), Tail(b))

------------------------------------------------------------------------------
\* styles.py : the escape-aware iteration of FormatStr

\* str(XTerm256NoColor())
NoColor == <<ESC, "[", "0", "m">>

\* One match of  \u001b\[\d+(;\d+){0,2}m  at index i: the index after it, or 0.
\* Every quantifier is greedy and no shorter choice can succeed (a shorter
\* digit run is followed by a digit, fewer groups by ';'), so the match is the
\* longest parameter list, which must then be followed by 'm'.
EscEnd(s, i) ==
    IF ~(i + 3 <= Len(s) /\ s[i] = ESC /\ s[i + 1] = "[" /\ IsDigit(s[i + 2]))
    THEN 0
    ELSE LET j0 == DigitsEnd(s, i + 2)
             Group(j) == IF j + 1 <= Len(s) /\ s[j] = ";" /\ IsDigit(s[j + 1])
                         THEN DigitsEnd(s, j + 1) ELSE j
             j2 == Group(Group(j0))
         IN IF j2 <= Len(s) /\ s[j2] = "m" THEN j2 + 1 ELSE 0

RECURSIVE RunEnd(_, _)
\* _regex_escape_code, (...)* greedy, from index i: the index after the run
RunEnd(s, i) ==
    LET e == EscEnd(s, i) IN IF e = 0 THEN i ELSE RunEnd(s, e)

RECURSIVE LastStart(_, _)
\* the start of the last escape sequence of the non-empty run at i
LastStart(s, i) ==
    LET e == EscEnd(s, i) IN IF EscEnd(s, e) = 0 THEN i ELSE LastStart(s, e)

\* One match of _regex_escape_code_char at index i <= Len(s): the index after
\* it.  (esc* \S esc*) is tried first; when the leading run is followed by
\* whitespace or by the end of the string, the regex engine gives back the
\* run's last sequence and \S matches that sequence's ESC byte.  Otherwise
\* the second alternative, (\s), matches one whitespace character.
CharTokenEnd(s, i) ==
    LET r == RunEnd(s, i) IN
    IF r <= Len(s) /\ ~IsSpace(s[r]) THEN RunEnd(s, r + 1)
    ELSE IF r > i THEN LastStart(s, i) + 1
    ELSE i + 1

RECURSIVE IterFrom(_, _)
IterFrom(s, i) ==
    IF i > Len(s) THEN <<>>
    ELSE LET e == CharTokenEnd(s, i)
         IN <<SubSeq(s, i, e - 1)>> \o IterFrom(s, e)

\* FormatStr.__iter__ : re.finditer yields the matches left to right
FormatStrIter(s) == IterFrom(s, 1)

\* FormatStr.__init__ on a str: a non-empty str gets the reset code appended;
\* the empty str raises ValueError (reported as "ValueError")
FormatStrInit(s) == IF s # <<>> THEN s \o NoColor ELSE "ValueError"

------------------------------------------------------------------------------
\* The terminal: __init__.py put_pixels / move_cursor, and what the emulator
\* shows for the bytes it receives

Pos(x, y) == <<x, y>>

\* the cell grid of a terminal of size sz = <<width, height>>
Grid(sz) == (0 .. sz[1] - 1) \X (0 .. sz[2] - 1)

\* __init__.py:299  0 <= x < width and 0 <= y < height
InBounds_NoLowerBound(p, sz) == p[1] < sz[1] /\ p[2] < sz[2]
InBounds(p, sz) == 0 <= p[1] /\ p[1] < sz[1] /\ 0 <= p[2] /\ p[2] < sz[2]

RECURSIVE SortRows(_, _)
SortRows(d, rows) ==
    IF rows = {} THEN <<>>
    ELSE LET m == CHOOSE r \in rows : \A q \in rows : r <= q
         IN SelectSeq(d, LAMBDA e : e[1][2] = m) \o SortRows(d, rows \ {m})

\* sorted(pixels.keys(), key=lambda t: t[1]) : a stable sort on the row alone,
\* so the keys of one row keep the dict's insertion order
SortedByRow(d) == SortRows(d, {d[i][1][2] : i \in DOMAIN d})

\* the <<position, text>> writes put_pixels sends to stdout, in order
PutPixelsWrites(pixels, sz) ==
    SelectSeq(SortedByRow(pixels), LAMBDA e : InBounds(e[1], sz))

RECURSIVE Drawn(_, _, _)
\* What a VT100/xterm parser draws for the text of one write, read from index
\* i in parser state st.  ESC starts an escape sequence from any state; a
\* sequence draws nothing; control characters draw nothing.  Every write
\* follows a cursor move (ESC [ row ; col H), which leaves the parser in the
\* ground state whatever came before it.
Drawn(tok, i, st) ==
    IF i > Len(tok) THEN <<>>
    ELSE LET c == tok[i] IN
         IF c = ESC THEN Drawn(tok, i + 1, "escape")
         ELSE IF st = "escape"
              THEN Drawn(tok, i + 1, IF c = "[" THEN "csi" ELSE "ground")
         ELSE IF st = "csi"
              THEN Drawn(tok, i + 1, IF IsDigit(c) \/ c = ";" THEN "csi" ELSE "ground")
         ELSE IF c \in {"\t", "\n"} THEN Drawn(tok, i + 1, "ground")
         ELSE <<c>> \o Drawn(tok, i + 1, "ground")

Visible(tok) == Drawn(tok, 1, "ground")

\* move_cursor((x, y)) then sys.stdout.write(text): the drawn characters fill
\* the cells from (x, y) rightwards, up to the right margin
TermWrite(t, p, tok) ==
    LET d == Visible(tok) IN
    [q \in DOMAIN t |->
        IF q[2] = p[2] /\ q[1] >= p[1] /\ q[1] < p[1] + Len(d)
        THEN d[q[1] - p[1] + 1] ELSE t[q]]

RECURSIVE ApplyWrites(_, _)
ApplyWrites(t, ws) ==
    IF ws = <<>> THEN t
    ELSE ApplyWrites(TermWrite(t, ws[1][1], ws[1][2]), Tail(ws))

BlankTerm(sz) == [p \in Grid(sz) |-> " "]

------------------------------------------------------------------------------
\* Bounds and inputs of the screen model

\* put calls between two flushes
MaxPuts == 2

\* the terminal sizes get_size() may return
Sizes == {<<2, 2>>, <<3, 1>>}

\* the texts given to put_str
Texts == {<<"h", "i">>, <<" ">>, <<>>}

\* the positions given to put_str
PutPositions == {<<0, 0>>, <<1, 0>>}

\* the dicts given to TerminalScreen.put_pixels
PixelMaps ==
    { << <<Pos(1, 1), <<"i">> >>, <<Pos(-1, 0), <<"i">> >>,
         <<Pos(0, 1), <<"h">> >>, <<Pos(0, 0), <<"h">> >> >> }

------------------------------------------------------------------------------
\* ui.py : TerminalScreen

\* {key: " " for (key, _) in buf.items()}
BlankAll(buf) == [i \in DOMAIN buf |-> <<buf[i][1], <<" ">> >>]

\* ui.py:450-452  the dict write() hands to the terminal writer
RenderSet_CurrentOnly(last, cur) == cur
RenderSet(last, cur) == DictUpdate(BlankAll(last), cur)

\* ui.py:447-449  for i in range(x): for j in range(y): last[(i, j)] = " "
SeedBlank(last, sz) ==
    DictUpdate(last, [n \in 1 .. sz[1] * sz[2] |->
                        <<Pos((n - 1) \div sz[2], (n - 1) % sz[2]), <<" ">> >>])

\* ui.py:456  self._last_screen_buf = self._curr_screen_buf
FlushedLast_Merged(last, cur) == DictUpdate(last, cur)
FlushedLast(last, cur) == cur

RECURSIVE PutTokens(_, _, _, _)
\* ui.py:404-406  for c in s: buf[(x, y)] = c; x += 1
PutTokens(buf, x, y, toks) ==
    IF toks = <<>> THEN buf
    ELSE PutTokens(DictSet(buf, Pos(x, y), toks[1]), x + 1, y, Tail(toks))

put_str(p, s) ==
    /\ puts < MaxPuts
    /\ puts' = puts + 1
    /\ op' = [name |-> "put_str", pos |-> p, text |-> s,
              raised |-> (FormatStrInit(s) = "ValueError")]
    /\ curr_screen_buf' =
          IF FormatStrInit(s) = "ValueError" THEN curr_screen_buf
          ELSE PutTokens(curr_screen_buf, p[1], p[2], FormatStrIter(FormatStrInit(s)))
    /\ emitted' = <<>>
    /\ UNCHANGED <<last_screen_buf, size, termSize, term, fixedSize>>

\* ui.py:418  self._curr_screen_buf |= pixels
MergePixels_KeepFirst(cur, pixels) == DictUpdate(pixels, cur)
MergePixels(cur, pixels) == DictUpdate(cur, pixels)

put_pixels(pixels) ==
    /\ puts < MaxPuts
    /\ puts' = puts + 1
    /\ op' = [name |-> "put_pixels", pixels |-> pixels]
    /\ curr_screen_buf' = MergePixels(curr_screen_buf, pixels)
    /\ emitted' = <<>>
    /\ UNCHANGED <<last_screen_buf, size, termSize, term, fixedSize>>

empty_screen_buffer ==
    /\ op' = [name |-> "empty_screen_buffer"]
    /\ curr_screen_buf' = <<>>
    /\ puts' = 0
    /\ emitted' = <<>>
    /\ UNCHANGED <<last_screen_buf, size, termSize, term, fixedSize>>

\* ui.py:437  self._last_screen_buf = {}
ClearedLast_Kept(last) == last
ClearedLast(last) == <<>>

clear_screen ==
    LET pixels == BlankAll(last_screen_buf)
        writes == PutPixelsWrites(pixels, termSize)
    IN /\ op' = [name |-> "clear_screen"]
       /\ emitted' = writes
       /\ term' = ApplyWrites(term, writes)
       /\ last_screen_buf' = ClearedLast(last_screen_buf)
       /\ UNCHANGED <<curr_screen_buf, size, termSize, fixedSize, puts>>

write ==
    LET seeded == IF size # termSize
                  THEN SeedBlank(last_screen_buf, termSize)
                  ELSE last_screen_buf
        pixels == RenderSet(seeded, curr_screen_buf)
        writes == PutPixelsWrites(pixels, termSize)
    IN /\ op' = [name |-> "write"]
       /\ size' = termSize
       /\ emitted' = writes
       /\ term' = ApplyWrites(term, writes)
       /\ last_screen_buf' = FlushedLast(seeded, curr_screen_buf)
       /\ curr_screen_buf' = <<>>
       /\ puts' = 0
       /\ UNCHANGED <<termSize, fixedSize>>

\* The user resizes the terminal window: the cells that stay keep their
\* content, new cells are blank.
Resize(sz) ==
    /\ sz # termSize
    /\ termSize' = sz
    /\ term' = [p \in Grid(sz) |-> IF p \in Grid(termSize) THEN term[p] ELSE " "]
    /\ fixedSize' = FALSE
    /\ op' = [name |-> "resize"]
    /\ emitted' = <<>>
    /\ UNCHANGED <<curr_screen_buf, last_screen_buf, size, puts>>

\* TerminalScreen.__init__ (ui.py:259-264) on a blank terminal
ScreenInit ==
    /\ curr_screen_buf = <<>>
    /\ last_screen_buf = <<>>
    /\ termSize \in Sizes
    /\ size = termSize
    /\ term = BlankTerm(termSize)
    /\ op = [name |-> "init"]
    /\ emitted = <<>>
    /\ fixedSize = TRUE
    /\ puts = 0

ScreenNext ==
    \/ \E p \in PutPositions, s \in Texts : put_str(p, s) /\ UNCHANGED <<sessionVars, parseVars, objectVars, call>>
    \/ \E pixels \in PixelMaps : put_pixels(pixels) /\ UNCHANGED <<sessionVars, parseVars, objectVars, call>>
    \/ empty_screen_buffer /\ UNCHANGED <<sessionVars, parseVars, objectVars, call>>
    \/ clear_screen /\ UNCHANGED <<sessionVars, parseVars, objectVars, call>>
    \/ write /\ UNCHANGED <<sessionVars, parseVars, objectVars, call>>
    \/ \E sz \in Sizes : Resize(sz) /\ UNCHANGED <<sessionVars, parseVars, objectVars, call>>

------------------------------------------------------------------------------
\* The session: ui.py show / quit / events, __init__.py configure / getch

\* events() generators per session
MaxGens == 2

\* inputs the user writes
MaxInputs == 2

Main == 0
\* the threads events(timeout) may start in one session (ui.py:308)
Listeners == {1, 2}
Threads == {Main} \cup Listeners

\* the line settings of a terminal at a shell prompt
CookedTty == [echo |-> TRUE, icanon |-> TRUE, vmin |-> 1]

NoTty == [echo |-> FALSE, icanon |-> FALSE, vmin |-> 0]

\* __init__.py:96-101  new_settings: ECHO and ICANON cleared, VMIN = v
RawOf(old, v) == [echo |-> FALSE, icanon |-> FALSE, vmin |-> v]

\* __init__.py:339-343  lflag |= ECHO  or  lflag &= ~ECHO
WithEcho(attr, e) == [attr EXCEPT !.echo = e]

\* the event parse_event makes of one read (the parser itself is modelled
\* below; here an event is known by the inputs it was read from)
InputEvent(raw) == [type |-> "input", raw |-> raw]

\* events.py:79-86  the events that carry no input
ScreenClosed == [type |-> "ScreenClosed", raw |-> <<>>]
Timeout == [type |-> "Timeout", raw |-> <<>>]

\* nothing yielded yet
NoEvent == [type |-> "none", raw |-> <<>>]

\* queue.Queue: put at the back (ui.py:306), get from the front (ui.py:311)
QueuePut_Front(q, e) == <<e>> \o q
QueuePut(q, e) == Append(q, e)

\* ui.py:314-322  after the ScreenClosed yield the generator runs its finally
\* block and ends
AfterScreenClosed_Loop(mode) == IF mode = "timeout" THEN "waitingQ" ELSE "reading"
AfterScreenClosed(mode) == "done"

SessionInit ==
    /\ tty = CookedTty
    /\ fullscreen = FALSE
    /\ cursor = TRUE
    /\ mouse = FALSE
    /\ mpc = "idle"
    /\ cfgSaved = NoTty
    /\ gen = [state |-> "none", mode |-> "none", l |-> 0]
    /\ gens = 0
    /\ gpc = [t \in Threads |-> "off"]
    /\ saved = [t \in Threads |-> NoTty]
    /\ ch = [t \in Threads |-> <<>>]
    /\ queue = [l \in Listeners |-> <<>>]
    /\ readLog = [l \in Listeners |-> <<>>]
    /\ stdin = <<>>
    /\ nInputs = 0
    /\ yieldedEv = <<>>
    /\ lastYield = NoEvent
    /\ interrupted = FALSE
    /\ yieldsSinceInt = 0

termModes == <<fullscreen, cursor, mouse>>
genVars == <<gen, gens, yieldedEv, lastYield, interrupted, yieldsSinceInt>>
getchVars == <<gpc, saved, ch>>

\* the user types or moves the mouse: one more input reaches stdin
UserInput ==
    /\ nInputs < MaxInputs
    /\ nInputs' = nInputs + 1
    /\ stdin' = Append(stdin, nInputs + 1)
    /\ UNCHANGED <<tty, termModes, mpc, cfgSaved, genVars, getchVars, queue, readLog>>

\* ---- getch (__init__.py:93-112), by thread t

\* :93  old_settings = termios.tcgetattr(stream)
GetchSave(t) ==
    /\ gpc[t] = "start"
    /\ saved' = [saved EXCEPT ![t] = tty]
    /\ gpc' = [gpc EXCEPT ![t] = "saved"]
    /\ ch' = [ch EXCEPT ![t] = <<>>]
    /\ UNCHANGED <<tty, termModes, mpc, cfgSaved, genVars, queue, readLog, stdin, nInputs>>

\* :94-102  new_settings shares old_settings' cc list (list.copy is shallow),
\* so VMIN changes in both; tcsetattr(new_settings)
GetchRaw(t) ==
    /\ gpc[t] = "saved"
    /\ tty' = RawOf(saved[t], 1)
    /\ saved' = [saved EXCEPT ![t].vmin = 1]
    /\ gpc' = [gpc EXCEPT ![t] = "raw"]
    /\ UNCHANGED <<termModes, mpc, cfgSaved, genVars, ch, queue, readLog, stdin, nInputs>>

\* :103  ch = os.read(fd, 1) blocks until input is there
GetchRead1(t) ==
    /\ gpc[t] = "raw"
    /\ stdin # <<>>
    /\ ch' = [ch EXCEPT ![t] = <<Head(stdin)>>]
    /\ stdin' = Tail(stdin)
    /\ gpc' = [gpc EXCEPT ![t] = "got1"]
    /\ UNCHANGED <<tty, termModes, mpc, cfgSaved, genVars, saved, queue, readLog, nInputs>>

\* :104-106  VMIN = 0; tcsetattr(new_settings)
GetchRaw0(t) ==
    /\ gpc[t] = "got1"
    /\ tty' = RawOf(saved[t], 0)
    /\ saved' = [saved EXCEPT ![t].vmin = 0]
    /\ gpc' = [gpc EXCEPT ![t] = "raw0"]
    /\ UNCHANGED <<termModes, mpc, cfgSaved, genVars, ch, queue, readLog, stdin, nInputs>>

\* :107-108  while _in := os.read(fd, 1): ch += _in  -- all that is available
GetchReadRest(t) ==
    /\ gpc[t] = "raw0"
    /\ ch' = [ch EXCEPT ![t] = ch[t] \o stdin]
    /\ stdin' = <<>>
    /\ gpc' = [gpc EXCEPT ![t] = "gotAll"]
    /\ UNCHANGED <<tty, termModes, mpc, cfgSaved, genVars, saved, queue, readLog, nInputs>>

\* :109-112  return ch, through  finally: tcsetattr(old_settings) , in a
\* listener thread (ui.py:306, the value goes to parse_event)
ListenerGetchReturn(l) ==
    /\ l \in Listeners
    /\ gpc[l] = "gotAll"
    /\ tty' = saved[l]
    /\ gpc' = [gpc EXCEPT ![l] = "returned"]
    /\ readLog' = [readLog EXCEPT ![l] = Append(readLog[l], InputEvent(ch[l]))]
    /\ UNCHANGED <<termModes, mpc, cfgSaved, genVars, saved, ch, queue, stdin, nInputs>>

\* ui.py:305-306  events.put(next_event()), and round the loop
ListenerPut(l) ==
    /\ l \in Listeners
    /\ gpc[l] = "returned"
    /\ queue' = [queue EXCEPT ![l] = QueuePut(queue[l], InputEvent(ch[l]))]
    /\ gpc' = [gpc EXCEPT ![l] = "start"]
    /\ UNCHANGED <<tty, termModes, mpc, cfgSaved, genVars, saved, ch, readLog, stdin, nInputs>>

\* ---- the main thread

\* ui.py:485-490 show(): configure(console_echo=False, fullscreen_mode=True,
\* show_cursor=False); __init__.py:337 tcgetattr
ShowRead ==
    /\ mpc = "idle"
    /\ cfgSaved' = tty
    /\ mpc' = "show"
    /\ UNCHANGED <<tty, termModes, genVars, getchVars, queue, readLog, stdin, nInputs>>

\* __init__.py:339-364 tcsetattr, and the flush of the escape codes written
ShowWrite ==
    /\ mpc = "show"
    /\ tty' = WithEcho(cfgSaved, FALSE)
    /\ fullscreen' = TRUE
    /\ cursor' = FALSE
    /\ mpc' = "body"
    /\ UNCHANGED <<mouse, cfgSaved, genVars, getchVars, queue, readLog, stdin, nInputs>>

\* ui.py:308  the thread events(timeout) starts: one that has not run yet
NewListener ==
    CHOOSE l \in Listeners : gpc[l] = "off" /\ \A k \in Listeners : gpc[k] = "off" => l <= k

\* ui.py:290-308  events(timeout) and the first next() on it: mouse reporting
\* on; without a timeout the generator goes to read, with one it makes a
\* queue, starts a listener thread and goes to wait on the queue
EventsCall(mode) ==
    /\ mpc = "body"
    /\ gen.state \in {"none", "done"}
    /\ gens < MaxGens
    /\ gens' = gens + 1
    /\ mouse' = TRUE
    /\ yieldedEv' = <<>>
    /\ lastYield' = NoEvent
    /\ interrupted' = FALSE
    /\ yieldsSinceInt' = 0
    /\ mode = "timeout" => \E l \in Listeners : gpc[l] = "off"
    /\ IF mode = "timeout"
       THEN /\ gen' = [state |-> "waitingQ", mode |-> mode, l |-> NewListener]
            /\ gpc' = [gpc EXCEPT ![NewListener] = "start"]
       ELSE /\ gen' = [state |-> "reading", mode |-> mode, l |-> 0]
            /\ gpc' = [gpc EXCEPT ![Main] = "start"]
    /\ UNCHANGED <<tty, fullscreen, cursor, mpc, cfgSaved, saved, ch, queue, readLog,
                   stdin, nInputs>>

\* a yield of the current generator; int: an interrupt has hit it
Yield(v, int) ==
    /\ lastYield' = v
    /\ yieldsSinceInt' = IF int THEN yieldsSinceInt + 1 ELSE 0

\* ui.py:299  yield next_event(): getch returns in the main thread (through
\* its finally) and the event is yielded
MainGetchReturn ==
    /\ gen.state = "reading"
    /\ gpc[Main] = "gotAll"
    /\ tty' = saved[Main]
    /\ gpc' = [gpc EXCEPT ![Main] = "off"]
    /\ gen' = [gen EXCEPT !.state = "suspended"]
    /\ yieldedEv' = Append(yieldedEv, InputEvent(ch[Main]))
    /\ Yield(InputEvent(ch[Main]), interrupted)
    /\ UNCHANGED <<termModes, mpc, cfgSaved, gens, interrupted, saved, ch, queue,
                   readLog, stdin, nInputs>>

\* KeyboardInterrupt while the main thread is blocked in os.read
InterruptRead ==
    /\ gen.state = "reading"
    /\ gpc[Main] = "raw"
    /\ interrupted' = TRUE
    /\ gen' = [gen EXCEPT !.state = "unwinding"]
    /\ gpc' = [gpc EXCEPT ![Main] = "finally"]
    /\ UNCHANGED <<tty, termModes, mpc, cfgSaved, gens, yieldedEv, lastYield,
                   yieldsSinceInt, saved, ch, queue, readLog, stdin, nInputs>>

\* __init__.py:110-112 getch's finally restores, then ui.py:314-315
\* except KeyboardInterrupt: yield ScreenClosed()
UnwindRead ==
    /\ gen.state = "unwinding"
    /\ tty' = saved[Main]
    /\ gpc' = [gpc EXCEPT ![Main] = "off"]
    /\ gen' = [gen EXCEPT !.state = "closedYield"]
    /\ Yield(ScreenClosed, TRUE)
    /\ UNCHANGED <<termModes, mpc, cfgSaved, gens, yieldedEv, interrupted, saved, ch,
                   queue, readLog, stdin, nInputs>>

\* ui.py:311  yield events.get(timeout=timeout), an event is queued
GetEvent ==
    /\ gen.state = "waitingQ"
    /\ queue[gen.l] # <<>>
    /\ queue' = [queue EXCEPT ![gen.l] = Tail(queue[gen.l])]
    /\ gen' = [gen EXCEPT !.state = "suspended"]
    /\ yieldedEv' = Append(yieldedEv, Head(queue[gen.l]))
    /\ Yield(Head(queue[gen.l]), interrupted)
    /\ UNCHANGED <<tty, termModes, mpc, cfgSaved, gens, interrupted, getchVars, readLog,
                   stdin, nInputs>>

\* ui.py:312-313  except queue.Empty: yield Timeout()
GetTimeout ==
    /\ gen.state = "waitingQ"
    /\ queue[gen.l] = <<>>
    /\ gen' = [gen EXCEPT !.state = "suspended"]
    /\ Yield(Timeout, interrupted)
    /\ UNCHANGED <<tty, termModes, mpc, cfgSaved, gens, yieldedEv, interrupted, getchVars,
                   queue, readLog, stdin, nInputs>>

\* KeyboardInterrupt during events.get: ui.py:314-315 yield ScreenClosed()
InterruptQueueWait ==
    /\ gen.state = "waitingQ"
    /\ interrupted' = TRUE
    /\ gen' = [gen EXCEPT !.state = "closedYield"]
    /\ Yield(ScreenClosed, TRUE)
    /\ UNCHANGED <<tty, termModes, mpc, cfgSaved, gens, yieldedEv, getchVars, queue,
                   readLog, stdin, nInputs>>

\* the consumer asks for the next event: the generator goes round its loop
ResumeNext ==
    /\ mpc = "body"
    /\ gen.state = "suspended"
    /\ IF gen.mode = "timeout"
       THEN /\ gen' = [gen EXCEPT !.state = "waitingQ"]
            /\ UNCHANGED gpc
       ELSE /\ gen' = [gen EXCEPT !.state = "reading"]
            /\ gpc' = [gpc EXCEPT ![Main] = "start"]
    /\ UNCHANGED <<tty, termModes, mpc, cfgSaved, gens, yieldedEv, lastYield, interrupted,
                   yieldsSinceInt, saved, ch, queue, readLog, stdin, nInputs>>

\* the consumer resumes the generator after ScreenClosed: ui.py:316-322, the
\* finally block turns mouse reporting off and the generator ends
ResumeAfterClosed ==
    /\ mpc = "body"
    /\ gen.state = "closedYield"
    /\ gen' = [gen EXCEPT !.state = AfterScreenClosed(gen.mode)]
    /\ mouse' = (gen'.state # "done")
    /\ gpc' = IF gen'.state = "reading" THEN [gpc EXCEPT ![Main] = "start"] ELSE gpc
    /\ UNCHANGED <<tty, fullscreen, cursor, mpc, cfgSaved, gens, yieldedEv, lastYield,
                   interrupted, yieldsSinceInt, saved, ch, queue, readLog, stdin, nInputs>>

\* the consumer leaves its loop (break, or an exception in its body): the
\* suspended generator is closed, GeneratorExit runs the finally block
\* (ui.py:316-322), mouse reporting off
GenClose ==
    /\ mpc = "body"
    /\ gen.state \in {"suspended", "closedYield"}
    /\ gen' = [gen EXCEPT !.state = "done"]
    /\ mouse' = FALSE
    /\ UNCHANGED <<tty, fullscreen, cursor, mpc, cfgSaved, gens, yieldedEv, lastYield,
                   interrupted, yieldsSinceInt, getchVars, queue, readLog, stdin, nInputs>>

\* the with-body ends (normally, by an exception or by a KeyboardInterrupt in
\* the body): ui.py:507-508 __exit__ calls quit(); ui.py:496-500 configure(
\* console_echo=True, fullscreen_mode=False, show_cursor=True); tcgetattr
QuitRead ==
    /\ mpc = "body"
    /\ gen.state \in {"none", "done"}
    /\ cfgSaved' = tty
    /\ mpc' = "quit"
    /\ UNCHANGED <<tty, termModes, genVars, getchVars, queue, readLog, stdin, nInputs>>

\* __init__.py:339-364 tcsetattr, and the flush of the escape codes written
QuitWrite ==
    /\ mpc = "quit"
    /\ tty' = WithEcho(cfgSaved, TRUE)
    /\ fullscreen' = FALSE
    /\ cursor' = TRUE
    /\ mpc' = "ended"
    /\ UNCHANGED <<mouse, cfgSaved, genVars, getchVars, queue, readLog, stdin, nInputs>>

SessionNext ==
    \/ UserInput /\ UNCHANGED <<screenVars, parseVars, objectVars, call>>
    \/ \E t \in Threads : GetchSave(t) /\ UNCHANGED <<screenVars, parseVars, objectVars, call>>
    \/ \E t \in Threads : GetchRaw(t) /\ UNCHANGED <<screenVars, parseVars, objectVars, call>>
    \/ \E t \in Threads : GetchRead1(t) /\ UNCHANGED <<screenVars, parseVars, objectVars, call>>
    \/ \E t \in Threads : GetchRaw0(t) /\ UNCHANGED <<screenVars, parseVars, objectVars, call>>
    \/ \E t \in Threads : GetchReadRest(t) /\ UNCHANGED <<screenVars, parseVars, objectVars, call>>
    \/ \E l \in Listeners : ListenerGetchReturn(l) /\ UNCHANGED <<screenVars, parseVars, objectVars, call>>
    \/ \E l \in Listeners : ListenerPut(l) /\ UNCHANGED <<screenVars, parseVars, objectVars, call>>
    \/ ShowRead /\ UNCHANGED <<screenVars, parseVars, objectVars, call>>
    \/ ShowWrite /\ UNCHANGED <<screenVars, parseVars, objectVars, call>>
    \/ \E mode \in {"blocking", "timeout"} : EventsCall(mode) /\ UNCHANGED <<screenVars, parseVars, objectVars, call>>
    \/ MainGetchReturn /\ UNCHANGED <<screenVars, parseVars, objectVars, call>>
    \/ InterruptRead /\ UNCHANGED <<screenVars, parseVars, objectVars, call>>
    \/ UnwindRead /\ UNCHANGED <<screenVars, parseVars, objectVars, call>>
    \/ GetEvent /\ UNCHANGED <<screenVars, parseVars, objectVars, call>>
    \/ GetTimeout /\ UNCHANGED <<screenVars, parseVars, objectVars, call>>
    \/ InterruptQueueWait /\ UNCHANGED <<screenVars, parseVars, objectVars, call>>
    \/ ResumeNext /\ UNCHANGED <<screenVars, parseVars, objectVars, call>>
    \/ ResumeAfterClosed /\ UNCHANGED <<screenVars, parseVars, objectVars, call>>
    \/ GenClose /\ UNCHANGED <<screenVars, parseVars, objectVars, call>>
    \/ QuitRead /\ UNCHANGED <<screenVars, parseVars, objectVars, call>>
    \/ QuitWrite /\ UNCHANGED <<screenVars, parseVars, objectVars, call>>


------------------------------------------------------------------------------
\* events.py : the input parser

DigitChars == <<"0", "1", "2", "3", "4", "5", "6", "7", "8", "9">>

DigitVal(c) == (CHOOSE d \in 1 .. 10 : DigitChars[d] = c) - 1

\* int(s) raises ValueError for a string of more digits than this: the
\* interpreter's limit for integer string conversion (CPython 3.11, and the
\* 3.9 and 3.10 releases since 3.9.14 and 3.10.7; setup.py asks for >= 3.9)
IntMaxStrDigits == 4300

IntRaises(ds) == Len(ds) > IntMaxStrDigits

RECURSIVE ToInt(_)
\* int(s) of a string of decimal digits that int accepts
ToInt(ds) ==
    IF ds = <<>> THEN 0
    ELSE 10 * ToInt(SubSeq(ds, 1, Len(ds) - 1)) + DigitVal(ds[Len(ds)])

RECURSIVE Dec(_)
\* the decimal digits a terminal sends for the number n >= 0
Dec(n) == IF n < 10 THEN <<DigitChars[n + 1]>>
          ELSE Dec(n \div 10) \o <<DigitChars[(n % 10) + 1]>>

\* events.py:23-63  MODIFIER_KEYS, name and value; "^X" is the control
\* character Ctrl+X (0x18), "^?" is 0x7f
MODIFIER_KEYS ==
    << <<"ENTER", <<"\n">> >>,
       <<"ESC", <<ESC>> >>,
       <<"TAB", <<"\t">> >>,
       <<"REVERSE_TAB", <<ESC, "[", "Z">> >>,
       <<"BACKSPACE", <<"^?">> >>,
       <<"DELETE", <<ESC, "[", "3", "~">> >>,
       <<"UP_ARROW", <<ESC, "[", "A">> >>,
       <<"DOWN_ARROW", <<ESC, "[", "B">> >>,
       <<"RIGHT_ARROW", <<ESC, "[", "C">> >>,
       <<"LEFT_ARROW", <<ESC, "[", "D">> >>,
       <<"OPTION_LEFT", <<ESC, "b">> >>,
       <<"OPTION_RIGHT", <<ESC, "f">> >>,
       <<"CONTROL_X", <<"^X">> >>,
       <<"CONTROL_V", <<"^V">> >>,
       <<"CONTROL_B", <<"^B">> >>,
       <<"CONTROL_N", <<"^N">> >>,
       <<"CONTROL_A", <<"^A">> >>,
       <<"CONTROL_D", <<"^D">> >>,
       <<"CONTROL_F", <<"^F">> >>,
       <<"CONTROL_G", <<"^G">> >>,
       <<"CONTROL_H", <<"^H">> >>,
       <<"CONTROL_K", <<"^K">> >>,
       <<"CONTROL_L", <<"^L">> >>,
       <<"CONTROL_W", <<"^W">> >>,
       <<"CONTROL_E", <<"^E">> >>,
       <<"CONTROL_R", <<"^R">> >>,
       <<"CONTROL_T", <<"^T">> >>,
       <<"CONTROL_U", <<"^U">> >>,
       <<"CONTROL_P", <<"^P">> >>,
       <<"F1", <<ESC, "O", "P">> >>,
       <<"F2", <<ESC, "O", "Q">> >>,
       <<"F3", <<ESC, "O", "R">> >>,
       <<"F4", <<ESC, "O", "S">> >>,
       <<"F5", <<ESC, "[", "1", "5", "~">> >>,
       <<"F6", <<ESC, "[", "1", "7", "~">> >>,
       <<"F7", <<ESC, "[", "1", "8", "~">> >>,
       <<"F8", <<ESC, "[", "1", "9", "~">> >>,
       <<"F9", <<ESC, "[", "2", "0", "~">> >>,
       <<"F10", <<ESC, "[", "2", "1", "~">> >> >>

\* MODIFIER_KEYS.values()
ModifierValues == {MODIFIER_KEYS[i][2] : i \in DOMAIN MODIFIER_KEYS}

\* MODIFIER_KEYS(value): the member with that value
ModifierByValue(v) ==
    MODIFIER_KEYS[CHOOSE i \in DOMAIN MODIFIER_KEYS : MODIFIER_KEYS[i][2] = v][1]

\* The event classes (events.py:79-163); raw is _unparsed_data
ParsedMove(x, y, raw) == [type |-> "MouseMove", x |-> x, y |-> y, raw |-> raw]
ParsedClick(x, y, raw) == [type |-> "Click", x |-> x, y |-> y, raw |-> raw]
ParsedRightClick(x, y, raw) == [type |-> "RightClick", x |-> x, y |-> y, raw |-> raw]
ParsedDrag(x, y, fx, fy, raw) ==
    [type |-> "MouseDrag", x |-> x, y |-> y, from_x |-> fx, from_y |-> fy, raw |-> raw]
ParsedRightDrag(x, y, fx, fy, raw) ==
    [type |-> "MouseRightDrag", x |-> x, y |-> y, from_x |-> fx, from_y |-> fy,
     raw |-> raw]
ParsedScrollUp(x, y, n, raw) ==
    [type |-> "ScrollUp", x |-> x, y |-> y, times |-> n, raw |-> raw]
ParsedScrollDown(x, y, n, raw) ==
    [type |-> "ScrollDown", x |-> x, y |-> y, times |-> n, raw |-> raw]
ParsedModifierKey(k, raw) == [type |-> "ModifierKey", key |-> k, raw |-> raw]
ParsedKey(k, raw) == [type |-> "Key", key |-> k, raw |-> raw]
ParsedUnknown(raw) == [type |-> "UNKNOWN_EVENT", data |-> raw, raw |-> raw]

\* no event: the call of parse_event(raw) ended with an exception
Raised(exc, raw) == [type |-> "raised", exc |-> exc, raw |-> raw]

ValueError == <<"ValueError">>

\* events.py:10-16  re.match of
\*   (\x1b\[\<)(<btn>;)(?P<position>\d+;\d+)(?P<end>...)
\* at the start of raw: the position group, or <<>> when there is no match
MouseMatch_WholeRead(raw, btn, ends) ==
    LET pre == <<ESC, "[", "<">> \o btn \o <<";">>
        a == Len(pre) + 1
        b == DigitsEnd(raw, a)
        c == DigitsEnd(raw, b + 1)
    IN IF /\ Len(raw) >= Len(pre)
          /\ SubSeq(raw, 1, Len(pre)) = pre
          /\ b > a /\ b <= Len(raw) /\ raw[b] = ";"
          /\ c > b + 1 /\ c = Len(raw) /\ raw[c] \in ends
       THEN SubSeq(raw, a, c - 1)
       ELSE <<>>
MouseMatch(raw, btn, ends) ==
    LET pre == <<ESC, "[", "<">> \o btn \o <<";">>
        a == Len(pre) + 1
        b == DigitsEnd(raw, a)
        c == DigitsEnd(raw, b + 1)
    IN IF /\ Len(raw) >= Len(pre)
          /\ SubSeq(raw, 1, Len(pre)) = pre
          /\ b > a /\ b <= Len(raw) /\ raw[b] = ";"
          /\ c > b + 1 /\ c <= Len(raw) /\ raw[c] \in ends
       THEN SubSeq(raw, a, c - 1)
       ELSE <<>>

\* events.py:178-186  parse_mouse_pos: the position, or ValueError when int
\* raises
parse_mouse_pos_OneIndexed(in) ==
    LET b == DigitsEnd(in, 1)
        c == DigitsEnd(in, b + 1)
        xs == SubSeq(in, 1, b - 1)
        ys == SubSeq(in, b + 1, c - 1)
    IN IF b > 1 /\ b <= Len(in) /\ in[b] = ";" /\ c > b + 1
       THEN IF IntRaises(xs) \/ IntRaises(ys) THEN ValueError
            ELSE <<ToInt(xs), ToInt(ys)>>
       ELSE <<-1, -1>>
parse_mouse_pos(in) ==
    LET b == DigitsEnd(in, 1)
        c == DigitsEnd(in, b + 1)
        xs == SubSeq(in, 1, b - 1)
        ys == SubSeq(in, b + 1, c - 1)
    IN IF b > 1 /\ b <= Len(in) /\ in[b] = ";" /\ c > b + 1
       THEN IF IntRaises(xs) \/ IntRaises(ys) THEN ValueError
            ELSE <<ToInt(xs) - 1, ToInt(ys) - 1>>
       ELSE <<-1, -1>>

\* events.py:209, 214  from_x, from_y = _curr_mouse_pos, read before the update
DragFrom_AfterUpdate(old, new) == new
DragFrom(old, new) == old

\* events.py:197-223  x, y = _curr_mouse_pos = parse_mouse_pos(...) in the
\* branch of the event class kind
StoredAfter_NotOnScroll(kind, old, new) ==
    IF kind \in {"ScrollUp", "ScrollDown"} THEN old ELSE new
StoredAfter(kind, old, new) == new

\* unparsed_event.count("\x1b")
CountEsc_One(raw) == 1
CountEsc(raw) == Cardinality({i \in DOMAIN raw : raw[i] = ESC})

\* events.py:229  "\x1b" not in unparsed_event and len(unparsed_event) == 1
IsSingleKey(raw) == (\A i \in DOMAIN raw : raw[i] # ESC) /\ Len(raw) = 1

\* the (?P<end>...) alternatives of the regexes
EndM == {"M"}
EndMm == {"M", "m"}

\* events.py:197-223  one mouse branch: the position group g matched; the
\* assignment x, y = _curr_mouse_pos = parse_mouse_pos(...) does not happen
\* when parse_mouse_pos raises
MouseBranch(kind, g, raw, pos) ==
    LET p == parse_mouse_pos(g)
        from == DragFrom(pos, p)
    IN IF p = ValueError THEN [ev |-> Raised("ValueError", raw), pos |-> pos]
       ELSE [ev |-> CASE kind = "MouseMove" -> ParsedMove(p[1], p[2], raw)
                      [] kind = "Click" -> ParsedClick(p[1], p[2], raw)
                      [] kind = "RightClick" -> ParsedRightClick(p[1], p[2], raw)
                      [] kind = "MouseDrag" ->
                            ParsedDrag(p[1], p[2], from[1], from[2], raw)
                      [] kind = "MouseRightDrag" ->
                            ParsedRightDrag(p[1], p[2], from[1], from[2], raw)
                      [] kind = "ScrollUp" ->
                            ParsedScrollUp(p[1], p[2], CountEsc(raw), raw)
                      [] kind = "ScrollDown" ->
                            ParsedScrollDown(p[1], p[2], CountEsc(raw), raw),
             pos |-> StoredAfter(kind, pos, p)]

\* events.py:226-233  the branches after the mouse regexes, in the code's order
KeyboardBranch_KeyFirst(raw, pos) ==
    IF IsSingleKey(raw) THEN [ev |-> ParsedKey(raw, raw), pos |-> pos]
    ELSE IF raw \in ModifierValues THEN
         [ev |-> ParsedModifierKey(ModifierByValue(raw), raw), pos |-> pos]
    ELSE [ev |-> ParsedUnknown(raw), pos |-> pos]
KeyboardBranch(raw, pos) ==
    IF raw \in ModifierValues THEN
         [ev |-> ParsedModifierKey(ModifierByValue(raw), raw), pos |-> pos]
    ELSE IF IsSingleKey(raw) THEN [ev |-> ParsedKey(raw, raw), pos |-> pos]
    ELSE [ev |-> ParsedUnknown(raw), pos |-> pos]

\* events.py:189-233  parse_event: the event returned and the new value of
\* _curr_mouse_pos, for the stored position pos
ParseEvent(raw, pos) ==
    LET mv == MouseMatch(raw, <<"3", "5">>, EndM)
        cl == MouseMatch(raw, <<"0">>, EndMm)
        rc == MouseMatch(raw, <<"2">>, EndM)
        dr == MouseMatch(raw, <<"3", "2">>, EndM)
        rd == MouseMatch(raw, <<"3", "4">>, EndM)
        su == MouseMatch(raw, <<"6", "5">>, EndM)
        sd == MouseMatch(raw, <<"6", "4">>, EndM)
    IN IF mv # <<>> THEN MouseBranch("MouseMove", mv, raw, pos)
       ELSE IF cl # <<>> THEN MouseBranch("Click", cl, raw, pos)
       ELSE IF rc # <<>> THEN MouseBranch("RightClick", rc, raw, pos)
       ELSE IF dr # <<>> THEN MouseBranch("MouseDrag", dr, raw, pos)
       ELSE IF rd # <<>> THEN MouseBranch("MouseRightDrag", rd, raw, pos)
       ELSE IF su # <<>> THEN MouseBranch("ScrollUp", su, raw, pos)
       ELSE IF sd # <<>> THEN MouseBranch("ScrollDown", sd, raw, pos)
       ELSE KeyboardBranch(raw, pos)

\* ---- the reads given to the parser

\* ESC [ < btn ; col ; row end, as the terminal sends it
SGR(btn, col, row, end) ==
    <<ESC, "[", "<">> \o btn \o <<";">> \o Dec(col) \o <<";">> \o Dec(row) \o <<end>>

\* the wire coordinates used (1-indexed; 0 is what a broken terminal sends)
Cols == {1, 11}
Rows == {0, 6}

\* the button codes parse_event knows
MouseButtons ==
    {<<"3", "5">>, <<"0">>, <<"2">>, <<"3", "2">>, <<"3", "4">>, <<"6", "5">>,
     <<"6", "4">>}

\* complete mouse sequences parse_event knows
MouseRaws ==
    {SGR(b, c, r, "M") : b \in MouseButtons, c \in Cols, r \in Rows}
    \cup {SGR(<<"0">>, c, r, "m") : c \in Cols, r \in Rows}

\* other mouse sequences a terminal sends: the middle button (1), and the
\* release (m) of a button other than the left one
OtherMouseRaws ==
    {SGR(<<"1">>, 11, 6, e) : e \in {"M", "m"}}
    \cup {SGR(b, 11, 6, "m") : b \in MouseButtons \ {<<"0">>}}

\* every proper prefix of a click sequence: partial reads, the empty read
PartialRaws ==
    {SubSeq(SGR(<<"0">>, 11, 6, "M"), 1, n) : n \in 0 .. 9}

\* single characters that are no modifier keys
KeyRaws == {<<"a">>, <<" ">>, <<"^C">>}

\* several characters in one read, and malformed sequences
TextRaws ==
    {<<"a", "b">>, <<"\n", "a">>, <<ESC, "a">>, <<ESC, "[", "<", "0", ";", ";", "M">>,
     <<"a">> \o SGR(<<"0">>, 11, 6, "M"), <<ESC, "[", "1", "1", "~">>}

\* several sequences in one read
CoalescedRaws ==
    {SGR(<<"0">>, 11, 6, "M") \o SGR(<<"3", "2">>, 1, 6, "M"),
     SGR(<<"6", "5">>, 11, 6, "M") \o SGR(<<"6", "5">>, 11, 6, "M"),
     SGR(<<"3", "5">>, 1, 6, "M") \o <<"a">>}

\* scroll ticks one read may coalesce
MaxTicks == 3

RECURSIVE Ticks(_, _)
\* n scroll ticks of button code b at wire position (11, 6), in one read
Ticks(b, n) == IF n = 0 THEN <<>> ELSE SGR(b, 11, 6, "M") \o Ticks(b, n - 1)

\* reads that start with a scroll sequence: n ticks, and a tick followed by
\* a click or by text
ScrollRaws ==
    {Ticks(b, n) : b \in {<<"6", "5">>, <<"6", "4">>}, n \in 1 .. MaxTicks}
    \cup {Ticks(<<"6", "4">>, 1) \o SGR(<<"0">>, 1, 6, "M"),
          Ticks(<<"6", "5">>, 1) \o <<"a">>}

\* a click whose column has one digit more than int converts
OverlongRaws ==
    {<<ESC, "[", "<", "0", ";">> \o [i \in 1 .. IntMaxStrDigits + 1 |-> "9"]
        \o <<";", "1", "M">>}

Raws ==
    MouseRaws \cup OtherMouseRaws \cup PartialRaws \cup ModifierValues \cup KeyRaws
        \cup TextRaws \cup CoalescedRaws \cup ScrollRaws

\* mouse and key reads, and the read int() refuses
AllRaws == MouseRaws \cup KeyRaws \cup OverlongRaws

NotParsed == [type |-> "none"]

MouseTypes ==
    {"MouseMove", "Click", "RightClick", "MouseDrag", "MouseRightDrag", "ScrollUp",
     "ScrollDown"}

IsMouse(e) == e.type \in MouseTypes

\* type and position of an event
Brief(e) == IF IsMouse(e) THEN <<e.type, e.x, e.y>> ELSE <<e.type>>

\* events.py:18  _curr_mouse_pos = (0, 0)
ParseInit ==
    /\ curr_mouse_pos = <<0, 0>>
    /\ event = NotParsed
    /\ prevPos = <<0, 0>>
    /\ prevEvent = <<"none">>
    /\ prevMouse = <<>>

\* events.py:166-167
get_curr_mouse_pos == curr_mouse_pos

\* events.py:189-233  one call of parse_event
parse_event(raw) ==
    LET r == ParseEvent(raw, curr_mouse_pos)
    IN /\ event' = r.ev
       /\ curr_mouse_pos' = r.pos
       /\ prevPos' = curr_mouse_pos
       /\ prevEvent' = Brief(event)
       /\ prevMouse' = IF IsMouse(event) THEN <<event.x, event.y>> ELSE prevMouse

\* ui.py:470-490  a new screen session starts: show() configures the terminal
\* and assigns nothing in events.py, so _curr_mouse_pos stays; the events
\* recorded so far belong to the session before
SessionStart ==
    /\ event' = NotParsed
    /\ prevPos' = curr_mouse_pos
    /\ prevEvent' = <<"none">>
    /\ prevMouse' = <<>>
    /\ UNCHANGED curr_mouse_pos

ParseNext ==
    \/ \E raw \in Raws : parse_event(raw) /\ UNCHANGED <<screenVars, sessionVars, objectVars, call>>
    \/ SessionStart /\ UNCHANGED <<screenVars, sessionVars, objectVars, call>>

ParseNextAll ==
    \/ \E raw \in AllRaws : parse_event(raw) /\ UNCHANGED <<screenVars, sessionVars, objectVars, call>>
    \/ SessionStart /\ UNCHANGED <<screenVars, sessionVars, objectVars, call>>

------------------------------------------------------------------------------
\* ui.py : TerminalScreen objects.  Every object has buffers of its own; the
\* terminal they configure (alternate screen, echo, cursor, mouse reporting,
\* window title) is one, and all of them write to the same stdout.

\* the TerminalScreen objects the program makes
Screens == {1, 2}

\* show() and quit() calls in one run
MaxLifecycleCalls == 4

\* self.title of each object
TitleOf(s) == IF s = 1 THEN "one" ELSE "two"

\* the sequences configure() and set_title() write (__init__.py:54, 333-362)
ShowCodes(s) == <<<<"title", TitleOf(s)>>, <<"?1049h">>, <<"?25l">>, <<"?1002l", "?1003l">>>>

QuitCodes == <<<<"?1049l">>, <<"?25h">>, <<"?1002l", "?1003l">>, <<"title", "">>>>

ObjectsInit ==
    /\ lifecycle = [s \in Screens |-> "none"]
    /\ title = "shell"
    /\ stdout = <<>>

sessionRest == <<mpc, cfgSaved, gen, gens, gpc, saved, ch, queue, readLog, stdin,
                 nInputs, yieldedEv, lastYield, interrupted, yieldsSinceInt>>

\* ui.py:251-264  TerminalScreen(title): the object's fields; nothing is
\* written and no other object is looked at
TerminalScreen(s) ==
    /\ lifecycle[s] = "none"
    /\ lifecycle' = [lifecycle EXCEPT ![s] = "created"]
    /\ UNCHANGED <<title, stdout, tty, fullscreen, cursor, mouse, sessionRest>>

\* ui.py:470-490  show(), also __enter__ (503-505): set_title(self.title),
\* configure(console_echo=False, fullscreen_mode=True, show_cursor=False);
\* mouse_movement_reporting keeps its default, False.  There is no test of
\* any kind before the writes.
show(s) ==
    /\ lifecycle[s] # "none"
    /\ Len(stdout) < Len(QuitCodes) * MaxLifecycleCalls
    /\ title' = TitleOf(s)
    /\ fullscreen' = TRUE
    /\ tty' = WithEcho(tty, FALSE)
    /\ cursor' = FALSE
    /\ mouse' = FALSE
    /\ stdout' = stdout \o ShowCodes(s)
    /\ lifecycle' = [lifecycle EXCEPT ![s] = "active"]
    /\ UNCHANGED sessionRest

\* ui.py:492-501  quit(), also __exit__ (507-508): configure(console_echo=True,
\* fullscreen_mode=False, show_cursor=True), set_title("")
quit(s) ==
    /\ lifecycle[s] # "none"
    /\ Len(stdout) < Len(QuitCodes) * MaxLifecycleCalls
    /\ fullscreen' = FALSE
    /\ tty' = WithEcho(tty, TRUE)
    /\ cursor' = TRUE
    /\ mouse' = FALSE
    /\ title' = ""
    /\ stdout' = stdout \o QuitCodes
    /\ lifecycle' = [lifecycle EXCEPT ![s] = "ended"]
    /\ UNCHANGED sessionRest

ObjectsNext ==
    \/ \E s \in Screens : TerminalScreen(s) /\ UNCHANGED <<screenVars, parseVars, call>>
    \/ \E s \in Screens : show(s) /\ UNCHANGED <<screenVars, parseVars, call>>
    \/ \E s \in Screens : quit(s) /\ UNCHANGED <<screenVars, parseVars, call>>

------------------------------------------------------------------------------
\* The pure functions: how a call and what it returned are kept

NoCall == [fn |-> "none", args |-> <<>>, results |-> <<>>]

\* a call that returned v, and a call that raised the exception exc
Ok(v) == [raised |-> FALSE, value |-> v]

Raises(exc) == [raised |-> TRUE, exc |-> exc]

\* calls of one function with the same arguments, one after the other
MaxCalls == 2

Max(a, b) == IF a >= b THEN a ELSE b

Min(a, b) == IF a <= b THEN a ELSE b

MaxOf(t) == CHOOSE v \in {t[i] : i \in DOMAIN t} : \A i \in DOMAIN t : t[i] <= v

MinOf(t) == CHOOSE v \in {t[i] : i \in DOMAIN t} : \A i \in DOMAIN t : v <= t[i]

\* round(n / d) of Python for d > 0: the nearest integer, a tie goes to the
\* even one.  The float quotients the code rounds are, for the inputs used
\* here, never within rounding error of a tie.
RoundDiv(n, d) ==
    LET q == (2 * n + d) \div (2 * d)
    IN IF (2 * n + d) % (2 * d) = 0 /\ q % 2 = 1 THEN q - 1 ELSE q

\* int(n / d) of Python for d > 0: truncation toward zero
TruncDiv(n, d) == IF n >= 0 THEN n \div d ELSE -((-n) \div d)

------------------------------------------------------------------------------
\* color.py : the xterm-256 index of an RGB triple

\* color.py:52  int(round((float(r - 8) / 247) * 24) + 232)
GrayRamp_From231(r) == RoundDiv((r - 8) * 24, 247) + 231
GrayRamp(r) == RoundDiv((r - 8) * 24, 247) + 232

\* color.py:55  16 + 36 * round(r / 255 * 5) + 6 * round(g / 255 * 5) + round(b / 255 * 5)
ColorCube(r, g, b) ==
    16 + 36 * RoundDiv(5 * r, 255) + 6 * RoundDiv(5 * g, 255) + RoundDiv(5 * b, 255)

\* color.py:47-55
rgb_to_xterm_256(t) ==
    LET r == t[1]
        g == t[2]
        b == t[3]
    IN IF r = g /\ g = b
       THEN IF r + g + b < 24 THEN 16
            ELSE IF r + g + b > 744 THEN 231
            ELSE GrayRamp(r)
       ELSE ColorCube(r, g, b)

------------------------------------------------------------------------------
\* color.py : color(color_value) and rgb(red, green, blue)

\* two characters of _regex_hslColor as the file has it: a capital A with a
\* circumflex, and the degree sign that follows it
ACIRC == "A^"

DEGREE == "deg"

\* str.lower() on the characters the model uses
LowerChar(c) ==
    CASE c = "R" -> "r"
      [] c = "G" -> "g"
      [] c = "B" -> "b"
      [] c = "W" -> "w"
      [] c = "F" -> "f"
      [] c = ACIRC -> "a^"
      [] OTHER -> c

Lower(s) == [i \in DOMAIN s |-> LowerChar(s[i])]

\* str.strip(): whitespace off both ends
Strip(s) ==
    LET keep == {i \in DOMAIN s : ~IsSpace(s[i])}
    IN IF keep = {} THEN <<>>
       ELSE SubSeq(s, CHOOSE i \in keep : \A j \in keep : i <= j,
                      CHOOSE i \in keep : \A j \in keep : j <= i)

\* the pieces the colour regexes are made of:  c   c?   \s?   (\d{1,3})
Lit(c) == [kind |-> "lit", c |-> c]

Opt(c) == [kind |-> "opt", c |-> c]

OptSpace == [kind |-> "opt_space"]

Digits3 == [kind |-> "digits"]

Lits(cs) == [i \in DOMAIN cs |-> Lit(cs[i])]

NoMatch == [ok |-> FALSE, groups |-> <<>>]

RECURSIVE MatchFrom(_, _, _, _, _)
\* re.match of the pieces pat[k], pat[k+1], ... at s[i]; g holds the groups
\* matched so far.  No piece ever has a second way to match that could
\* succeed: an optional character that is present and skipped, or a digit
\* run cut short, leaves a character that the next piece does not accept.
MatchFrom(pat, k, s, i, g) ==
    IF k > Len(pat) THEN [ok |-> TRUE, groups |-> g]
    ELSE LET p == pat[k]
             here == i <= Len(s)
         IN CASE p.kind = "lit" ->
                     IF here /\ s[i] = p.c THEN MatchFrom(pat, k + 1, s, i + 1, g)
                     ELSE NoMatch
              [] p.kind = "opt" ->
                     IF here /\ s[i] = p.c THEN MatchFrom(pat, k + 1, s, i + 1, g)
                     ELSE MatchFrom(pat, k + 1, s, i, g)
              [] p.kind = "opt_space" ->
                     IF here /\ IsSpace(s[i]) THEN MatchFrom(pat, k + 1, s, i + 1, g)
                     ELSE MatchFrom(pat, k + 1, s, i, g)
              [] p.kind = "digits" ->
                     LET e == Min(DigitsEnd(s, i), i + 3)
                     IN IF e > i
                        THEN MatchFrom(pat, k + 1, s, e,
                                       Append(g, ToInt(SubSeq(s, i, e - 1))))
                        ELSE NoMatch

Match(pat, s) == MatchFrom(pat, 1, s, 1, <<>>)

\* ,\s?(\d{1,3})
NextField == <<Lit(","), OptSpace, Digits3>>

\* color.py:10  rgb\s?\((\d{1,3}),\s?(\d{1,3}),\s?(\d{1,3})\)
regex_rgbColor ==
    Lits(<<"r", "g", "b">>) \o <<OptSpace, Lit("("), Digits3>> \o NextField \o NextField
        \o <<Lit(")")>>

\* color.py:11  hsl\s?\((\d{1,3})<A^><deg>?,\s?(\d{1,3})%?,\s?(\d{1,3})%?\)
\* The capital A with circumflex is not optional; color() matches against the
\* lowercased text, which cannot hold one.
regex_hslColor ==
    Lits(<<"h", "s", "l">>) \o <<OptSpace, Lit("("), Digits3, Lit(ACIRC), Opt(DEGREE)>>
        \o NextField \o <<Opt("%")>> \o NextField \o <<Opt("%"), Lit(")")>>

\* color.py:12-13  cmyk\s?\((\d{1,3})%?,\s?(\d{1,3})%?,\s?(\d{1,3})%?,\s?(\d{1,3})%?\)
regex_cmykColor ==
    Lits(<<"c", "m", "y", "k">>) \o <<OptSpace, Lit("("), Digits3, Opt("%")>>
        \o NextField \o <<Opt("%")>> \o NextField \o <<Opt("%")>>
        \o NextField \o <<Opt("%"), Lit(")")>>

HexChars == <<"0", "1", "2", "3", "4", "5", "6", "7", "8", "9", "a", "b", "c", "d", "e", "f">>

IsHex(c) == \E d \in DOMAIN HexChars : HexChars[d] = c

HexVal(c) == (CHOOSE d \in DOMAIN HexChars : HexChars[d] = c) - 1

\* color.py:14  (#[0-9a-fA-F]+) at the start of s: the hex digits matched
HexMatch(s) ==
    IF Len(s) < 2 \/ s[1] # "#" \/ ~IsHex(s[2]) THEN <<>>
    ELSE LET stops == {j \in 2 .. Len(s) : ~IsHex(s[j])}
             e == IF stops = {} THEN Len(s) + 1
                  ELSE CHOOSE j \in stops : \A k \in stops : j <= k
         IN SubSeq(s, 2, e - 1)

\* webcolors.hex_to_rgb (color.py:160): three or six hex digits, else ValueError
HexValid(h) == Len(h) \in {3, 6}

hex_to_rgb(h) ==
    LET d == IF Len(h) = 3 THEN <<h[1], h[1], h[2], h[2], h[3], h[3]>> ELSE h
    IN <<16 * HexVal(d[1]) + HexVal(d[2]), 16 * HexVal(d[3]) + HexVal(d[4]),
         16 * HexVal(d[5]) + HexVal(d[6])>>

\* webcolors.name_to_rgb (color.py:169): the names the model knows
ColorNames ==
    <<<<<<"w", "h", "i", "t", "e">>, <<255, 255, 255>>>>,
      <<<<"b", "l", "a", "c", "k">>, <<0, 0, 0>>>>,
      <<<<"r", "e", "d">>, <<255, 0, 0>>>>>>

\* color.py:70-76  _cmyk_to_rgb: round(255 * (1 - c/100) * (1 - k/100)), ...
cmyk_to_rgb(cmyk) ==
    LET k == cmyk[4]
        Channel(c) == RoundDiv(255 * (100 - c) * (100 - k), 10000)
    IN <<Channel(cmyk[1]), Channel(cmyk[2]), Channel(cmyk[3])>>

\* colorsys.hls_to_rgb's _v, on m1 and m2 scaled by 10000 and the hue in
\* degrees: the value scaled by 600000
HlsV(m1, m2, hd) ==
    LET h == hd % 360
    IN IF h < 60 THEN 60 * m1 + (m2 - m1) * h
       ELSE IF h < 180 THEN 60 * m2
       ELSE IF h < 240 THEN 60 * m1 + (m2 - m1) * (240 - h)
       ELSE 60 * m1

\* color.py:88-95  _hsl_to_rgb: colorsys.hls_to_rgb(h/360, l/100, s/100), then
\* int(x * 255) of each channel, in exact arithmetic
hsl_to_rgb(hsl) ==
    LET h == hsl[1]
        s == hsl[2]
        l == hsl[3]
        m2 == IF l <= 50 THEN l * (100 + s) ELSE 100 * l + 100 * s - l * s
        m1 == 200 * l - m2
        Channel(hd) == TruncDiv(255 * HlsV(m1, m2, hd), 600000)
    IN IF s = 0 THEN <<TruncDiv(255 * l, 100), TruncDiv(255 * l, 100), TruncDiv(255 * l, 100)>>
       ELSE <<Channel(h + 120), Channel(h), Channel(h - 120)>>

\* color.py:79-85  _rgb_to_hsl: colorsys.rgb_to_hls divides by maxc + minc
\* when the lightness is at most 0.5 and by 2 - maxc - minc when it is more
HlsDividesByZero(t) ==
    LET sum == MaxOf(t) + MinOf(t)
    IN MaxOf(t) # MinOf(t) /\ (sum = 0 \/ sum = 510)

\* color.py:58-67  _rgb_to_cmyk divides by 1 - min(c, m, y), which is 0 when
\* the largest channel is 0; only (0, 0, 0) itself is returned before that
CmykDividesByZero(t) == t # <<0, 0, 0>> /\ MaxOf(t) = 0

\* color.py:173-187  rgb(red, green, blue): the fields are computed from the
\* arguments as given; RGB holds them unchanged.  webcolors.rgb_to_name and
\* rgb_to_hex clamp a channel to 0..255 themselves and do not raise for one
\* outside it.
rgb(red, green, blue) ==
    LET t == <<red, green, blue>>
    IN IF HlsDividesByZero(t) \/ CmykDividesByZero(t) THEN Raises("ZeroDivisionError")
       ELSE Ok([RGB |-> t, X_TERM |-> rgb_to_xterm_256(t)])

\* color.py:101-170
color(color_value) ==
    LET v == Lower(Strip(color_value))
        rgb_match == Match(regex_rgbColor, v)
        hsl_match == Match(regex_hslColor, v)
        hex_match == HexMatch(v)
        cmyk_match == Match(regex_cmykColor, v)
        named == {i \in DOMAIN ColorNames : ColorNames[i][1] = v}
        Rgb(t) == rgb(t[1], t[2], t[3])
    IN IF rgb_match.ok THEN Rgb(rgb_match.groups)
       ELSE IF hsl_match.ok THEN Rgb(hsl_to_rgb(hsl_match.groups))
       ELSE IF hex_match # <<>>
            THEN IF HexValid(hex_match) THEN Rgb(hex_to_rgb(hex_match))
                 ELSE Raises("ValueError")
       ELSE IF cmyk_match.ok THEN Rgb(cmyk_to_rgb(cmyk_match.groups))
       ELSE IF named # {} THEN Rgb(ColorNames[CHOOSE i \in named : TRUE][2])
       ELSE Raises("ValueError")

------------------------------------------------------------------------------
\* string.py and FormatStr (styles.py): escape-aware length, just, words, wrap

RECURSIVE WithoutFrom(_, _)
\* re.sub(_regex_escape_code, "", s, 0) from index i on: a non-empty run of
\* escape sequences is dropped, any other character is kept
WithoutFrom(s, i) ==
    IF i > Len(s) THEN <<>>
    ELSE LET r == RunEnd(s, i)
         IN IF r > i THEN WithoutFrom(s, r) ELSE <<s[i]>> \o WithoutFrom(s, i + 1)

\* string.py:116-127, styles.py:655-666
without_escape_codes(s) == WithoutFrom(s, 1)

\* string.py:19-20
escaped_len(s) == Len(without_escape_codes(s))

\* styles.py:503-504  FormatStr.__len__, on self.s
FormatStrLen(fs) == Len(without_escape_codes(fs))

RECURSIVE Repeat(_, _)
\* fill_char * n : the empty str for n <= 0
Repeat(c, n) == IF n <= 0 THEN <<>> ELSE c \o Repeat(c, n - 1)

\* string.py:64-65, styles.py:620-621  center: shift = gap // 2 cells on the
\* left, shift + gap % 2 on the right
CenterPad_ExtraLeft(gap) == <<(gap \div 2) + (gap % 2), gap \div 2>>
CenterPad(gap) == <<gap \div 2, (gap \div 2) + (gap % 2)>>

\* string.py:56-70, after the test of fill_char: n is the visible length of s
Justified(s, n, width, mode, fill_char) ==
    LET gap == Max(n, width) - n
    IN CASE mode = "left" -> Ok(s \o Repeat(fill_char, gap))
         [] mode = "right" -> Ok(Repeat(fill_char, gap) \o s)
         [] mode = "center" ->
                Ok(Repeat(fill_char, CenterPad(gap)[1]) \o s
                       \o Repeat(fill_char, CenterPad(gap)[2]))
         [] OTHER -> Raises("ValueError")

\* string.py:23-70
just(s, width, mode, fill_char) ==
    IF escaped_len(fill_char) # 1 THEN Raises("ValueError")
    ELSE Justified(s, escaped_len(s), width, mode, fill_char)

\* styles.py:581-626  FormatStr.just, self.s = fs.  FormatStr(fill_char)
\* raises ValueError for the empty str; the result is made a FormatStr, which
\* appends the reset code once more.
FormatStr_just(fs, width, mode, fill_char) ==
    IF fill_char = <<>> THEN Raises("ValueError")
    ELSE IF FormatStrLen(FormatStrInit(fill_char)) # 1 THEN Raises("ValueError")
    ELSE LET r == Justified(fs, FormatStrLen(fs), width, mode, fill_char)
         IN IF r.raised THEN r ELSE Ok(r.value \o NoColor)

\* One match of _regex_escape_code_word, esc* (\S+) esc*, found from index i
\* on: <<start, end>> with end the index after it, or <<0, 0>>.  The match
\* starts at the first character that is not whitespace (an ESC byte is not)
\* and \S+, greedy, runs to the next whitespace or to the end; whatever the
\* leading esc* took first, the match ends there.
WordAt(s, i) ==
    LET starts == {j \in i .. Len(s) : ~IsSpace(s[j])}
        a == CHOOSE j \in starts : \A k \in starts : j <= k
        stops == {j \in a .. Len(s) : IsSpace(s[j])}
    IN IF starts = {} THEN <<0, 0>>
       ELSE IF stops = {} THEN <<a, Len(s) + 1>>
       ELSE <<a, CHOOSE j \in stops : \A k \in stops : j <= k>>

RECURSIVE WordsFrom(_, _)
WordsFrom(s, i) ==
    LET w == WordAt(s, i)
    IN IF w[1] = 0 THEN <<>>
       ELSE <<SubSeq(s, w[1], w[2] - 1)>> \o WordsFrom(s, w[2])

\* string.py:73-83  words(s): re.finditer, the matches left to right
words(s) == WordsFrom(s, 1)

\* styles.py:680-690  FormatStr.to_words: every match made a FormatStr
to_words(fs) == [i \in DOMAIN words(fs) |-> FormatStrInit(words(fs)[i])]

RECURSIVE Join(_)
\* " ".join(line)
Join(line) ==
    IF line = <<>> THEN <<>>
    ELSE IF Len(line) = 1 THEN line[1]
    ELSE line[1] \o <<" ">> \o Join(Tail(line))

\* string.py:106  escaped_len(" ".join([*line, word])) > width
LineTooLong_NoSpace(line, word, width) ==
    escaped_len(Join(line)) + escaped_len(word) > width
LineTooLong(line, word, width) == escaped_len(Join(Append(line, word))) > width

RECURSIVE WrapLoop(_, _, _)
\* string.py:104-113  the loop of wrap and the yield after it; the lines
\* yielded, in order
WrapLoop(word_list, line, width) ==
    IF word_list = <<>> THEN <<Join(line)>>
    ELSE LET word == Head(word_list)
         IN IF LineTooLong(line, word, width) \/ word = <<"\n">>
            THEN (IF line # <<>> THEN <<Join(line)>> ELSE <<>>)
                     \o WrapLoop(Tail(word_list), <<word>>, width)
            ELSE WrapLoop(Tail(word_list), Append(line, word), width)

\* string.py:86-113
wrap(s, width) == Ok(WrapLoop(words(s), <<>>, width))

\* styles.py:644  len(FormatStr(" ".join(...))) > width; the join holds a
\* word, so it is not empty
FormatStrLineTooLong(line, word, width) ==
    FormatStrLen(FormatStrInit(Join(Append(line, word)))) > width

RECURSIVE FormatStrWrapLoop(_, _, _)
\* styles.py:641-653  word == "\n" is FormatStr.__eq__ with a str: the str is
\* compared with word.s.  Once a word has been taken, line is never empty.
FormatStrWrapLoop(word_list, line, width) ==
    IF word_list = <<>> THEN <<FormatStrInit(Join(line))>>
    ELSE LET word == Head(word_list)
         IN IF FormatStrLineTooLong(line, word, width) \/ word = <<"\n">>
            THEN (IF line # <<>> THEN <<FormatStrInit(Join(line))>> ELSE <<>>)
                     \o FormatStrWrapLoop(Tail(word_list), <<word>>, width)
            ELSE FormatStrWrapLoop(Tail(word_list), Append(line, word), width)

\* styles.py:628-653  FormatStr.wrap, self.s = fs.  With no word at all the
\* only yield is FormatStr(""), which raises ValueError.
FormatStr_wrap(fs, width) ==
    IF to_words(fs) = <<>> THEN Raises("ValueError")
    ELSE Ok(FormatStrWrapLoop(to_words(fs), <<>>, width))

------------------------------------------------------------------------------
\* The calls of the pure functions that are checked

\* channel values for _rgb_to_xterm_256: the ends, the edges of the gray
\* ramp (sum 24 and 744), and values in between
Channels == {0, 7, 8, 128, 248, 249, 255}

XtermArgs == Channels \X Channels \X Channels

\* name(a,b,...) as a text
Fields(name, vals) ==
    LET RECURSIVE List(_)
        List(v) == IF Len(v) = 1 THEN Dec(v[1])
                   ELSE Dec(v[1]) \o <<",">> \o List(Tail(v))
    IN name \o <<"(">> \o List(vals) \o <<")">>

\* numbers the regexes accept for a channel of rgb(...), in and out of 0..255
RgbFields == {0, 210, 255, 300}

\* numbers the regexes accept for a percentage of cmyk(...)
CmykFields == {0, 100, 200}

OtherColorTexts ==
    { <<" ", "R", "G", "B", " ", "(", "1", ",", " ", "2", ",", "3", ")", "\n">>,
      <<"r", "g", "b", "(", "1", ",", "2", ",", "3">>,
      <<"r", "g", "b", "(", "1", "0", "0", "0", ",", "0", ",", "0", ")">>,
      <<"h", "s", "l", "(", "0", ",", "0", ",", "1", "5", "0", ")">>,
      <<"h", "s", "l", "(", "0", ACIRC, DEGREE, ",", "0", ",", "1", "5", "0", ")">>,
      <<"h", "s", "l", "(", "1", "2", "0", ",", "1", "0", "0", "%", ",", "5", "0", "%", ")">>,
      <<"c", "m", "y", "k", "(", "0", "%", ",", " ", "1", "0", "0", "%", ",", "1", "0", "0", ",", "0", ")">>,
      <<"#", "f", "f", "f">>,
      <<"#", "F", "F", "0", "0", "0", "0">>,
      <<"#", "f", "f">>,
      <<"#">>,
      <<"W", "h", "i", "t", "e">>,
      <<"r", "e", "d">>,
      <<"n", "o", "p", "e">>,
      <<>> }

ColorTexts ==
    {Fields(<<"r", "g", "b">>, t) : t \in RgbFields \X RgbFields \X RgbFields}
        \cup {Fields(<<"c", "m", "y", "k">>, t) :
                 t \in CmykFields \X CmykFields \X CmykFields \X CmykFields}
        \cup OtherColorTexts

\* ESC[31m
Red == <<ESC, "[", "3", "1", "m">>

\* texts a FormatStr is made of (not empty: FormatStr("") raises)
FormatStrTexts ==
    { <<"a", "b">>, <<" ">>, <<"a", " ", "b">>, <<"a", " ">>,
      Red \o <<"A", "B">> \o NoColor,
      Red \o <<" ", "A">>,
      Red \o <<"A">> \o NoColor \o <<" ">> \o Red \o <<"B">> }

\* widths given to just and wrap: 0 .. MaxWidth
MaxWidth == 5

Modes == {"left", "right", "center", "block"}

JustTexts == { <<"a", "b">>, <<"a", "b", "c">>, <<"a">>, Red \o <<"a", "b">> \o NoColor }

FillChars == { <<" ">>, <<"*">>, Red \o <<"*">>, <<>>, <<"x", "y">>, Red }

JustArgs == JustTexts \X (0 .. MaxWidth) \X Modes \X FillChars

WrapTexts ==
    { <<"a", "b", " ", "c", "d", "\n", "e", "f">>,
      <<"a", "b", "c", "d", "e", "f", " ", "g", "h", " ", "i">>,
      <<"a", " ", " ", "b">>,
      <<"a", "b", " ">>,
      <<"a", " ", "b", " ", "c", " ", "d">>,
      <<"a", "\n", "b">>,
      Red \o <<"a", "b">> \o NoColor \o <<" ">> \o Red \o <<"c">> \o NoColor \o <<" ", "d">>,
      <<" ">> }

WrapArgs == (WrapTexts \cup {<<>>}) \X (0 .. MaxWidth)

FormatStrWrapArgs == WrapTexts \X (0 .. MaxWidth)

Calls(fn, argss) == {[fn |-> fn, args |-> a, results |-> <<>>] : a \in argss}

PureInit ==
    call \in Calls("_rgb_to_xterm_256", XtermArgs)
                 \cup Calls("color", ColorTexts)
                 \cup Calls("FormatStr", FormatStrTexts)
                 \cup Calls("just", JustArgs)
                 \cup Calls("FormatStr.just", JustArgs)
                 \cup Calls("wrap", WrapArgs)
                 \cup Calls("FormatStr.wrap", FormatStrWrapArgs)

\* one more call of fn with the same arguments
Returns(fn, result) ==
    /\ call.fn = fn
    /\ Len(call.results) < MaxCalls
    /\ call' = [call EXCEPT !.results = Append(@, result)]

CallXterm == Returns("_rgb_to_xterm_256", Ok(rgb_to_xterm_256(call.args)))

CallColor == Returns("color", color(call.args))

\* len(FormatStr(s)) and list(FormatStr(s))
CallFormatStr ==
    Returns("FormatStr", Ok([len |-> FormatStrLen(FormatStrInit(call.args)),
                             tokens |-> FormatStrIter(FormatStrInit(call.args))]))

CallJust == Returns("just", just(call.args[1], call.args[2], call.args[3], call.args[4]))

CallFormatStrJust ==
    Returns("FormatStr.just",
            FormatStr_just(FormatStrInit(call.args[1]), call.args[2], call.args[3],
                           call.args[4]))

CallWrap == Returns("wrap", wrap(call.args[1], call.args[2]))

CallFormatStrWrap ==
    Returns("FormatStr.wrap", FormatStr_wrap(FormatStrInit(call.args[1]), call.args[2]))

PureNext ==
    \/ CallXterm /\ UNCHANGED <<screenVars, sessionVars, parseVars, objectVars>>
    \/ CallColor /\ UNCHANGED <<screenVars, sessionVars, parseVars, objectVars>>
    \/ CallFormatStr /\ UNCHANGED <<screenVars, sessionVars, parseVars, objectVars>>
    \/ CallJust /\ UNCHANGED <<screenVars, sessionVars, parseVars, objectVars>>
    \/ CallFormatStrJust /\ UNCHANGED <<screenVars, sessionVars, parseVars, objectVars>>
    \/ CallWrap /\ UNCHANGED <<screenVars, sessionVars, parseVars, objectVars>>
    \/ CallFormatStrWrap /\ UNCHANGED <<screenVars, sessionVars, parseVars, objectVars>>

------------------------------------------------------------------------------
\* The specifications

\* the screen buffers, with no session activity
Init == ScreenInit /\ SessionInit /\ ParseInit /\ ObjectsInit /\ call = NoCall

Next == ScreenNext

Spec == Init /\ [][Next]_vars

\* the session and its threads, with the screen buffers untouched
InitSession ==
    ScreenInit /\ termSize = <<2, 2>> /\ SessionInit /\ ParseInit /\ ObjectsInit /\ call = NoCall

NextSession == SessionNext

SpecSession == InitSession /\ [][NextSession]_vars

\* the parser, fed one read after the other
InitParse ==
    ScreenInit /\ termSize = <<2, 2>> /\ SessionInit /\ ParseInit /\ ObjectsInit /\ call = NoCall

NextParse == ParseNext

SpecParse == InitParse /\ [][NextParse]_vars

\* the parser, fed also a read whose coordinate int() does not convert
NextParseAll == ParseNextAll

SpecParseAll == InitParse /\ [][NextParseAll]_vars

\* TerminalScreen objects sharing the terminal
InitScreens ==
    ScreenInit /\ termSize = <<2, 2>> /\ SessionInit /\ ParseInit /\ ObjectsInit /\ call = NoCall

NextScreens == ObjectsNext

SpecScreens == InitScreens /\ [][NextScreens]_vars

\* the pure functions, each called on one of its inputs
InitPure ==
    ScreenInit /\ termSize = <<2, 2>> /\ SessionInit /\ ParseInit /\ ObjectsInit /\ PureInit

NextPure == PureNext

SpecPure == InitPure /\ [][NextPure]_vars

------------------------------------------------------------------------------
\* Claims about the screen buffers (checked under Spec)

\* the text a flush must send for position p
FlushCell(p) ==
    IF p \in DictKeys(curr_screen_buf) THEN DictGet(curr_screen_buf, p) ELSE <<" ">>

\* the positions a flush must send: those of the last buffer (with the whole
\* new grid when the size changed) and those of the current buffer, as far as
\* they are on the screen
FlushPositions ==
    (DictKeys(last_screen_buf) \cup DictKeys(curr_screen_buf)
        \cup (IF size # termSize THEN Grid(termSize) ELSE {}))
    \cap Grid(termSize)

\* C1: a flush sends exactly the positions of the last buffer as spaces,
\* overlaid with the entries of the current buffer: every position of the last
\* buffer that is not in the current buffer is written as a space, every
\* position of the current buffer is written with its current text, and
\* nothing else is written (positions off the screen are never written).
C1_FlushSendsLastBlankedOverlaidWithCurrent ==
    [][op'.name = "write" =>
         /\ {emitted'[i][1] : i \in DOMAIN emitted'} = FlushPositions
         /\ Len(emitted') = Cardinality(FlushPositions)
         /\ \A i \in DOMAIN emitted' : emitted'[i][2] = FlushCell(emitted'[i][1])
         /\ \A p \in (DictKeys(last_screen_buf) \ DictKeys(curr_screen_buf))
                        \cap Grid(termSize) :
               \E i \in DOMAIN emitted' : emitted'[i] = <<p, <<" ">> >>
      ]_vars

\* C1 witness: the second of two flushes after put_str((0,0), "hi") has
\* written a space at (0,0) and at (1,0) and nothing else
C1_Witness ==
    /\ op.name = "write"
    /\ emitted = << <<Pos(0, 0), <<" ">> >>, <<Pos(1, 0), <<" ">> >> >>
    /\ last_screen_buf = <<>>
    /\ term[Pos(0, 0)] = " " /\ term[Pos(1, 0)] = " "

\* what the cell of a stored text shows; a text that draws nothing counts as
\* a blank
ShownFor(tok) == IF Visible(tok) = <<>> THEN <<" ">> ELSE Visible(tok)

\* C2: at a fixed terminal size, from a blank terminal, the last buffer
\* describes the terminal: every position of the screen that is in the last
\* buffer shows the character stored for it, every other position is blank.
C2_LastBufferDescribesTerminal ==
    fixedSize =>
        \A p \in Grid(termSize) :
            IF p \in DictKeys(last_screen_buf)
            THEN <<term[p]>> = ShownFor(DictGet(last_screen_buf, p))
            ELSE term[p] = " "

\* C3: a flush makes the last buffer the current buffer as it was before the
\* call, and empties the current buffer.
C3_FlushMovesCurrentToLast ==
    [][op'.name = "write" =>
         /\ last_screen_buf' = curr_screen_buf
         /\ curr_screen_buf' = <<>>
      ]_vars

\* C3 witness: a flush has replaced a non-empty last buffer by a different
\* non-empty current buffer
C3_Witness ==
    /\ op.name = "write"
    /\ fixedSize
    /\ curr_screen_buf = <<>>
    /\ last_screen_buf # <<>>
    /\ \E i \in DOMAIN emitted :
          /\ emitted[i][2] = <<" ">>
          /\ emitted[i][1] \notin DictKeys(last_screen_buf)

\* C13: put_str((x, y), text) does not fail and stores one entry per visible
\* character of text, at (x, y), (x+1, y), ...: the i-th entry shows the i-th
\* visible character (with its escape codes, which draw nothing), no other
\* position is added and no other entry changes.
C13_PutStrStoresOneEntryPerVisibleCharacter ==
    [][op'.name = "put_str" =>
         LET vis == Visible(op'.text)
             x == op'.pos[1]
             y == op'.pos[2]
             cells == {Pos(x + i - 1, y) : i \in 1 .. Len(vis)}
         IN /\ ~op'.raised
            /\ DictKeys(curr_screen_buf') = DictKeys(curr_screen_buf) \cup cells
            /\ \A i \in 1 .. Len(vis) :
                  Visible(DictGet(curr_screen_buf', Pos(x + i - 1, y))) = <<vis[i]>>
            /\ \A q \in DictKeys(curr_screen_buf) \ cells :
                  DictGet(curr_screen_buf', q) = DictGet(curr_screen_buf, q)
      ]_vars

\* C14: put_str, put_pixels and empty_screen_buffer send nothing to the
\* terminal and leave the last buffer as it is; put_pixels sets every entry of
\* its map into the current buffer (an entry already there is replaced) and
\* keeps the others; empty_screen_buffer empties the current buffer.
C14_PutsChangeOnlyTheCurrentBuffer ==
    [][op'.name \in {"put_str", "put_pixels", "empty_screen_buffer"} =>
         /\ emitted' = <<>>
         /\ term' = term
         /\ last_screen_buf' = last_screen_buf
         /\ op'.name = "put_pixels" =>
               /\ DictKeys(curr_screen_buf') =
                     DictKeys(curr_screen_buf) \cup DictKeys(op'.pixels)
               /\ \A q \in DictKeys(curr_screen_buf') :
                     DictGet(curr_screen_buf', q) =
                        IF q \in DictKeys(op'.pixels) THEN DictGet(op'.pixels, q)
                        ELSE DictGet(curr_screen_buf, q)
         /\ op'.name = "empty_screen_buffer" => curr_screen_buf' = <<>>
      ]_vars

\* C14 witness: put_pixels has replaced the ' ' that put_str((0,0), " ") stored
\* at (0,0) by its own 'h', with nothing sent and nothing flushed yet
C14_Witness ==
    /\ op.name = "put_pixels"
    /\ Pos(1, 0) \in DictKeys(curr_screen_buf)
    /\ DictGet(curr_screen_buf, Pos(0, 0)) = <<"h">>
    /\ curr_screen_buf[1] = <<Pos(0, 0), <<"h">> >>
    /\ emitted = <<>>
    /\ last_screen_buf = <<>>
    /\ term = BlankTerm(termSize)

\* C15: clear_screen writes a space to every position of the last buffer (that
\* is on the screen), leaves the current buffer as it is and empties the last
\* buffer; a write() right after it, at the same terminal size, sends exactly
\* the entries of the current buffer.
C15_ClearScreenBlanksLastAtOnce ==
    [][/\ op'.name = "clear_screen" =>
             /\ {emitted'[i][1] : i \in DOMAIN emitted'} =
                   DictKeys(last_screen_buf) \cap Grid(termSize)
             /\ Len(emitted') = Cardinality(DictKeys(last_screen_buf) \cap Grid(termSize))
             /\ \A i \in DOMAIN emitted' : emitted'[i][2] = <<" ">>
             /\ curr_screen_buf' = curr_screen_buf
             /\ last_screen_buf' = <<>>
       /\ (op.name = "clear_screen" /\ op'.name = "write" /\ size = termSize) =>
             /\ {emitted'[i][1] : i \in DOMAIN emitted'} =
                   DictKeys(curr_screen_buf) \cap Grid(termSize)
             /\ \A i \in DOMAIN emitted' :
                   emitted'[i][2] = DictGet(curr_screen_buf, emitted'[i][1])
      ]_vars

\* C15 witness: clear_screen has blanked the two cells of a flushed "hi" while
\* the current buffer holds entries
C15_Witness ==
    /\ op.name = "clear_screen"
    /\ emitted = << <<Pos(0, 0), <<" ">> >>, <<Pos(1, 0), <<" ">> >> >>
    /\ curr_screen_buf # <<>>
    /\ last_screen_buf = <<>>
    /\ term = BlankTerm(termSize)

\* C16: a write() that finds the terminal size changed sends one cell for
\* every position of the new grid, a space or the current buffer's text,
\* records the new size, and leaves no stale content: every cell then shows
\* the current buffer's character or a blank.
C16_ResizeRedrawsTheWholeGrid ==
    [][(op'.name = "write" /\ size # termSize) =>
         /\ {emitted'[i][1] : i \in DOMAIN emitted'} = Grid(termSize)
         /\ Len(emitted') = Cardinality(Grid(termSize))
         /\ \A i \in DOMAIN emitted' : emitted'[i][2] = FlushCell(emitted'[i][1])
         /\ size' = termSize
         /\ \A q \in Grid(termSize) : <<term'[q]>> = ShownFor(FlushCell(q))
      ]_vars

\* C17: the writes of one flush are in row-major order: of two writes, the
\* one with the smaller y comes first, and within one y the one with the
\* smaller x.
C17_FlushIsRowMajor ==
    op.name = "write" =>
        \A i, j \in DOMAIN emitted :
            i < j =>
                \/ emitted[i][1][2] < emitted[j][1][2]
                \/ /\ emitted[i][1][2] = emitted[j][1][2]
                   /\ emitted[i][1][1] < emitted[j][1][1]

\* C18: a flush at an unchanged terminal size does not write a position again
\* whose text in the current buffer is the text the previous flush left in the
\* last buffer for it.
C18_FlushSkipsUnchangedCells ==
    [][(op'.name = "write" /\ size = termSize) =>
         \A i \in DOMAIN emitted' :
            LET q == emitted'[i][1]
            IN ~(/\ q \in DictKeys(last_screen_buf)
                 /\ q \in DictKeys(curr_screen_buf)
                 /\ DictGet(last_screen_buf, q) = DictGet(curr_screen_buf, q))
      ]_vars

\* C29: the terminal writer sends a cursor move and a text only for positions
\* with 0 <= x < width and 0 <= y < height of the terminal size at that time;
\* entries at other positions are skipped.
C29_WritesStayOnTheScreen ==
    \A i \in DOMAIN emitted : emitted[i][1] \in Grid(termSize)

\* C29 witness: a flush has sent cells while the buffer it flushed held the
\* position (-1, 0)
C29_Witness ==
    /\ op.name = "write"
    /\ Pos(-1, 0) \in DictKeys(last_screen_buf)
    /\ emitted # <<>>

------------------------------------------------------------------------------
\* Claims about the session (checked under SpecSession)

\* C4: however the session ends, and whatever the listener thread is doing in
\* getch at that moment, after quit() the terminal has the settings it had
\* before the session: echo on, canonical mode as before, cursor visible,
\* alternate screen off, mouse reporting off.
C4_SessionEndRestoresTerminal ==
    mpc = "ended" =>
        /\ tty.echo
        /\ tty.icanon = CookedTty.icanon
        /\ cursor
        /\ ~fullscreen
        /\ ~mouse

\* the event the listener's getch has returned and that is not yet queued
InFlight(l) == IF gpc[l] = "returned" THEN <<InputEvent(ch[l])>> ELSE <<>>

\* C5: in events(timeout) every step of the consumer yields the oldest event
\* the listener has queued and that was not yet yielded, or Timeout when none
\* is queued; the events are yielded in the order they were read, none dropped
\* or duplicated; a waiting consumer can always take its step.
C5_TimeoutModeYieldsEventsInOrder ==
    /\ [](gen.mode = "timeout" =>
            readLog[gen.l] = yieldedEv \o queue[gen.l] \o InFlight(gen.l))
    /\ [][gen.state = "waitingQ" /\ gen'.state = "suspended" =>
            lastYield' = IF queue[gen.l] # <<>> THEN Head(queue[gen.l]) ELSE Timeout
         ]_vars
    /\ [](gen.state = "waitingQ" => ENABLED (GetEvent \/ GetTimeout))

\* C5 witness: a slow consumer holds the first event while the second one,
\* read later, waits in the queue
C5_Witness ==
    /\ gen.mode = "timeout"
    /\ gen.state = "suspended"
    /\ lastYield = InputEvent(<<1>>)
    /\ yieldedEv = <<InputEvent(<<1>>)>>
    /\ queue[gen.l] = <<InputEvent(<<2>>)>>

\* C6: after a KeyboardInterrupt has hit events() in its wait for input, the
\* generator yields nothing until it yields ScreenClosed, yields ScreenClosed
\* once, and yields nothing after it: it ends.
C6_InterruptYieldsScreenClosedLast ==
    interrupted =>
        /\ gen.state \in {"unwinding", "closedYield", "done"}
        /\ gen.state = "unwinding" => yieldsSinceInt = 0
        /\ gen.state \in {"closedYield", "done"} =>
              yieldsSinceInt = 1 /\ lastYield = ScreenClosed

\* C6 witness: a generator interrupted in its blocking read has yielded
\* ScreenClosed and ended, after it had yielded an input event
C6_Witness ==
    /\ interrupted
    /\ gen.mode = "blocking"
    /\ gen.state = "done"
    /\ lastYield = ScreenClosed
    /\ yieldedEv # <<>>

\* the listener threads that have been started (none ever ends: _listen is
\* a while True loop in a daemon thread)
Running == {l \in Listeners : gpc[l] # "off"}

\* C19: a session has at most one background reader thread at any time,
\* however many times events(timeout) was called.
C19_AtMostOneReaderThread == Cardinality(Running) <= 1

\* listener l belongs to the generator that is in use now
ServesLiveGenerator(l) == gen.mode = "timeout" /\ gen.l = l /\ gen.state # "done"

\* C20: once the events(timeout) generator of a reader thread has ended, the
\* thread reads nothing more from the input stream.
C20_ReaderStopsWithItsGenerator ==
    [][\A l \in Listeners :
          (gpc'[l] # gpc[l] /\ gpc'[l] \in {"got1", "gotAll"}) => ServesLiveGenerator(l)
      ]_vars

------------------------------------------------------------------------------
\* Claims about the input parser (SpecParse)

\* C7: a MouseDrag or MouseRightDrag event has from_x, from_y equal to the
\* x, y of the most recent mouse event returned before it, whatever other
\* events came in between; a MouseDrag returned right after a MouseMove has
\* from_x, from_y equal to that MouseMove's x, y.
C7_DragStartsAtLastMousePosition ==
    event.type \in {"MouseDrag", "MouseRightDrag"} =>
        /\ prevMouse # <<>> => <<event.from_x, event.from_y>> = prevMouse
        /\ (event.type = "MouseDrag" /\ prevEvent[1] = "MouseMove") =>
              <<event.from_x, event.from_y>> = <<prevEvent[2], prevEvent[3]>>

\* a drag right after a move to another cell than the drag's and the initial one
C7_Witness ==
    /\ event.type = "MouseDrag"
    /\ prevEvent[1] = "MouseMove"
    /\ <<event.from_x, event.from_y>> = <<10, 5>>
    /\ <<event.x, event.y>> = <<0, 5>>

\* C8: after parse_event returned a mouse event, get_curr_mouse_pos() is that
\* event's (x, y); after it returned a Key, ModifierKey or UNKNOWN_EVENT the
\* stored position is what it was before the call.
C8_StoredPositionFollowsMouseEvents ==
    /\ IsMouse(event) => get_curr_mouse_pos = <<event.x, event.y>>
    /\ event.type \in {"Key", "ModifierKey", "UNKNOWN_EVENT"} =>
          get_curr_mouse_pos = prevPos

\* a scroll moved the stored position
C8_Witness ==
    /\ event.type = "ScrollDown"
    /\ get_curr_mouse_pos = <<10, 5>>
    /\ prevPos = <<0, -1>>

\* C9: the event parsed from ESC [ < btn ; col ; row M, btn one of the button
\* codes of parse_event, is a mouse event with x = col - 1 and y = row - 1;
\* ESC[<0;11;6M gives a Click at x = 10, y = 5.
C9_WireCoordinatesBecomeZeroIndexed ==
    event.type \notin {"none", "raised"} =>
        /\ \A b \in MouseButtons, c \in Cols, r \in Rows :
              event.raw = SGR(b, c, r, "M") =>
                  IsMouse(event) /\ event.x = c - 1 /\ event.y = r - 1
        /\ event.raw = <<ESC, "[", "<", "0", ";", "1", "1", ";", "6", "M">> =>
              event.type = "Click" /\ event.x = 10 /\ event.y = 5

\* the click of the example
C9_Witness ==
    event = ParsedClick(10, 5, <<ESC, "[", "<", "0", ";", "1", "1", ";", "6", "M">>)

\* the reads that are no mouse sequence parse_event knows, no value of
\* MODIFIER_KEYS and no single character
UnrecognisedRaws == (OtherMouseRaws \cup PartialRaws \cup TextRaws) \ ModifierValues

\* C10: parse_event returns an event for every read and never raises; a read
\* that is no known mouse sequence, no value of MODIFIER_KEYS and no single
\* character without ESC gives UNKNOWN_EVENT carrying the read.
C10_ParseEventNeverRaises ==
    /\ event.type # "raised"
    /\ (event.type # "none" /\ event.raw \in UnrecognisedRaws) =>
          event = ParsedUnknown(event.raw)

\* C11: a read that is no mouse sequence and equals a value of MODIFIER_KEYS
\* gives ModifierKey of that member, also when it is a single character
\* ('\n', '\t', 0x7f = BACKSPACE, the control characters of the table);
\* another single character without ESC gives Key of that character.
C11_ModifierKeysBeforeSingleCharacters ==
    event.type \notin {"none", "raised"} =>
        /\ \A i \in DOMAIN MODIFIER_KEYS :
              event.raw = MODIFIER_KEYS[i][2] =>
                  event.type = "ModifierKey" /\ event.key = MODIFIER_KEYS[i][1]
        /\ event.raw = <<"^?">> => event.type = "ModifierKey" /\ event.key = "BACKSPACE"
        /\ event.raw \in {<<"\n">>, <<"\t">>, <<"^X">>} => event.type = "ModifierKey"
        /\ event.raw \in KeyRaws => event.type = "Key" /\ event.key = event.raw
        /\ event.raw = <<"a">> => event = ParsedKey(<<"a">>, <<"a">>)

\* 0x7f was read: Backspace
C11_Witness == event = ParsedModifierKey("BACKSPACE", <<"^?">>)

\* C12: a read that starts with a scroll-up (65) or scroll-down (64) sequence
\* gives ScrollUp / ScrollDown with times = the ESC bytes of the whole read:
\* n coalesced ticks give one event with times = n.
C12_ScrollTimesCountsEscBytes ==
    event.type \notin {"none", "raised"} =>
        /\ \A n \in 1 .. MaxTicks :
              /\ event.raw = Ticks(<<"6", "5">>, n) =>
                    event.type = "ScrollUp" /\ event.times = n
              /\ event.raw = Ticks(<<"6", "4">>, n) =>
                    event.type = "ScrollDown" /\ event.times = n
        /\ event.raw \in ScrollRaws =>
              /\ event.type \in {"ScrollUp", "ScrollDown"}
              /\ event.times = Len(SelectSeq(event.raw, LAMBDA c : c = ESC))

\* two ticks in one read
C12_Witness ==
    /\ event.type = "ScrollUp"
    /\ event.raw = Ticks(<<"6", "5">>, 2)
    /\ event.times = 2

\* C22: the first drag of a session does not start at a position stored in an
\* earlier session: with no mouse event before it in its session, its from_x,
\* from_y is the initial position (0, 0).
C22_MousePositionResetAtSessionStart ==
    (event.type \in {"MouseDrag", "MouseRightDrag"} /\ prevMouse = <<>>) =>
        <<event.from_x, event.from_y>> = <<0, 0>>

\* the event class of a button code
ButtonType(b) ==
    CASE b = <<"3", "5">> -> "MouseMove"
      [] b = <<"0">> -> "Click"
      [] b = <<"2">> -> "RightClick"
      [] b = <<"3", "2">> -> "MouseDrag"
      [] b = <<"3", "4">> -> "MouseRightDrag"
      [] b = <<"6", "5">> -> "ScrollUp"
      [] b = <<"6", "4">> -> "ScrollDown"

\* what follows the first sequence in the coalesced reads
LaterSequences ==
    {SGR(<<"3", "2">>, 1, 6, "M"), SGR(<<"0">>, 1, 6, "M"), <<"a">>}

\* C30: a read that holds a mouse sequence followed by more input gives one
\* event, of the type and at the position of the first sequence; the stored
\* position is that position; what follows gives no event and changes nothing.
C30_CoalescedReadGivesFirstSequenceOnly ==
    event.type \notin {"none", "raised"} =>
        \A b \in MouseButtons, c \in Cols, r \in Rows, t \in LaterSequences :
            event.raw = SGR(b, c, r, "M") \o t =>
                /\ event.type = ButtonType(b)
                /\ event.x = c - 1 /\ event.y = r - 1
                /\ get_curr_mouse_pos = <<c - 1, r - 1>>

\* a click and a drag in one read: the click, and the drag is lost
C30_Witness ==
    /\ event = ParsedClick(10, 5, SGR(<<"0">>, 11, 6, "M") \o SGR(<<"3", "2">>, 1, 6, "M"))
    /\ get_curr_mouse_pos = <<10, 5>>

------------------------------------------------------------------------------
\* Claims about TerminalScreen objects (checked under SpecScreens)

ActiveScreens == {s \in Screens : lifecycle[s] = "active"}

\* C21: at most one TerminalScreen session is Active (between show() and
\* quit()) at any time, and while a session is Active the terminal stays as
\* show() configured it: no other session's quit() restores it.
C21_AtMostOneActiveSession ==
    /\ Cardinality(ActiveScreens) <= 1
    /\ ActiveScreens # {} => fullscreen /\ ~tty.echo /\ ~cursor

------------------------------------------------------------------------------
\* Claims about the pure functions (checked under SpecPure)

Called(fn) == call.fn = fn /\ call.results # <<>>

IsGray(t) == t[1] = t[2] /\ t[2] = t[3]

\* C23 as stated: for every RGB triple with channels in 0..255, also one with
\* r = g = b, _rgb_to_xterm_256 returns an index in 16..231, the same index on
\* every call.
C23_XtermIndexWithin16To231 ==
    Called("_rgb_to_xterm_256") =>
        \A i \in DOMAIN call.results :
            /\ call.results[i] = call.results[1]
            /\ call.results[i].value \in 16 .. 231

\* C23 amended: the index is the same on every call and lies in 16..255; a
\* triple that is not gray gets a colour-cube index, 16..231; a gray one gets
\* 16 below r = 8, 231 above r = 248 and a gray-ramp index, 232..255, between.
C23_XtermIndexInCubeOrGrayRamp ==
    Called("_rgb_to_xterm_256") =>
        \A i \in DOMAIN call.results :
            LET v == call.results[i].value
                r == call.args[1]
            IN /\ call.results[i] = call.results[1]
               /\ v \in 16 .. 255
               /\ ~IsGray(call.args) => v \in 16 .. 231
               /\ IsGray(call.args) /\ r < 8 => v = 16
               /\ IsGray(call.args) /\ r > 248 => v = 231
               /\ IsGray(call.args) /\ r >= 8 /\ r <= 248 => v \in 232 .. 255

C23_Witness ==
    /\ call.fn = "_rgb_to_xterm_256"
    /\ call.args = <<128, 128, 128>>
    /\ call.results = <<Ok(244), Ok(244)>>

\* C24: color(input) either fails with the invalid-colour-format error
\* (ValueError) or returns a colour whose RGB channels are all in 0..255, also
\* for rgb(...), hsl(...) and cmyk(...) texts with fields out of range.
C24_ColorIsInRangeOrInvalidFormat ==
    Called("color") =>
        \A i \in DOMAIN call.results :
            LET r == call.results[i]
            IN IF r.raised THEN r.exc = "ValueError"
               ELSE \A c \in 1 .. 3 : r.value.RGB[c] \in 0 .. 255

RECURSIVE Flatten(_)
Flatten(ss) == IF ss = <<>> THEN <<>> ELSE Head(ss) \o Flatten(Tail(ss))

\* C25: the visible length counts only non-escape characters (whitespace
\* counts one, an SGR sequence zero; ESC[31m A B ESC[0m has length 2), and
\* iteration yields exactly that many tokens, each with exactly one visible
\* character, which together are the visible characters of the string: no
\* token is made of escape-sequence bytes only.
C25_OneTokenPerVisibleCharacter ==
    Called("FormatStr") =>
        \A i \in DOMAIN call.results :
            LET r == call.results[i].value
            IN /\ call.args = Red \o <<"A", "B">> \o NoColor => r.len = 2
               /\ call.args = <<" ">> => r.len = 1
               /\ Len(r.tokens) = r.len
               /\ \A k \in DOMAIN r.tokens : escaped_len(r.tokens[k]) = 1
               /\ Flatten([k \in DOMAIN r.tokens |-> without_escape_codes(r.tokens[k])])
                      = without_escape_codes(call.args)

\* what the claim expects of just: the visible characters of the result
Padded(s, width, mode, fill_char) ==
    LET text == without_escape_codes(s)
        fill == without_escape_codes(fill_char)
        gap == Max(width, Len(text)) - Len(text)
        left == CASE mode = "left" -> 0
                  [] mode = "right" -> gap
                  [] mode = "center" -> gap \div 2
    IN Repeat(fill, left) \o text \o Repeat(fill, gap - left)

Contains(r, s) == \E i \in 1 .. Len(r) - Len(s) + 1 : SubSeq(r, i, i + Len(s) - 1) = s

VisibleWords(lines) ==
    Flatten([k \in DOMAIN lines |->
                [j \in DOMAIN words(lines[k]) |-> without_escape_codes(words(lines[k])[j])]])

\* the text wrap works on: s itself, or self.s of the FormatStr made of s
WrapText == IF call.fn = "wrap" THEN call.args[1] ELSE FormatStrInit(call.args[1])

\* C27: wrap(s, width) packs the words of s greedily and in order: every line
\* has visible length at most width unless it is a single word longer than
\* width; no word is split, cut or lost; and a line ends before a word only
\* when that word, with one separating space, would not fit on it.
C27_WrapPacksWordsGreedily ==
    Called("wrap") \/ Called("FormatStr.wrap") =>
        \A i \in DOMAIN call.results :
            LET r == call.results[i]
                width == call.args[2]
            IN /\ ~r.raised
               /\ VisibleWords(r.value)
                      = [j \in DOMAIN words(WrapText) |->
                             without_escape_codes(words(WrapText)[j])]
               /\ \A k \in DOMAIN r.value :
                      \/ escaped_len(r.value[k]) <= width
                      \/ Len(words(r.value[k])) = 1
               /\ \A k \in 1 .. Len(r.value) - 1 :
                      escaped_len(r.value[k]) + 1
                          + escaped_len(words(r.value[k + 1])[1]) > width

C27_Witness ==
    /\ call.fn = "wrap"
    /\ call.args = <<<<"a", "b", "c", "d", "e", "f", " ", "g", "h", " ", "i">>, 4>>
    /\ call.results = <<Ok(<<<<"a", "b", "c", "d", "e", "f">>, <<"g", "h", " ", "i">>>>)>>

RECURSIVE WordsInFirst(_, _)
\* the number of words on the first k lines
WordsInFirst(lines, k) ==
    IF k = 0 THEN 0 ELSE WordsInFirst(lines, k - 1) + Len(words(lines[k]))

\* C28: an explicit newline in s forces a line break: the words before it and
\* the words after it are never on the same output line, so some number of
\* whole lines holds exactly the words before the newline.
C28_NewlineForcesLineBreak ==
    Called("wrap") \/ Called("FormatStr.wrap") =>
        \A i \in DOMAIN call.results, p \in DOMAIN call.args[1] :
            LET r == call.results[i]
                before == Len(words(SubSeq(call.args[1], 1, p - 1)))
            IN call.args[1][p] = "\n" /\ ~r.raised =>
                   \E k \in 0 .. Len(r.value) : WordsInFirst(r.value, k) = before

==========================================================================
